---- MODULE Spec2Model ----
(***************************************************************************)
(* A model of the state machines of deterministic-mcp-agents:              *)
(*                                                                         *)
(*   - the builder-produced generic Fsm of                                 *)
(*     modules/03-agents/examples/08_fsm_builder.rs (FsmBuilder, Fsm),     *)
(*   - the refactor workflow RefactorFsm of                                *)
(*     modules/03-agents/examples/09_refactor_fsm.rs, with its hooks,      *)
(*     history ledger, event log and rollback stack, and the               *)
(*     benchmark_transitions driver of the same file,                      *)
(*   - handle_request and its CancellationToken of                         *)
(*     modules/04-mcp-server/examples/14_async_handler.rs,                 *)
(*   - the table-driven FSM of modules/01-foundations/src/fsm.rs,          *)
(*   - Operation and Calculator of modules/02-setup/src/calculator.rs,     *)
(*   - Server of pmcp/src/server.rs,                                       *)
(*   - FsmInput and fsm_is_deterministic of                                *)
(*     modules/05-testing/examples/16_property_tests.rs,                   *)
(*   - run_stdio_server of final_project/src/main.rs over the              *)
(*     StdioTransport of pmcp/src/transport.rs,                            *)
(*   - RetryPolicy and CircuitBreaker of                                   *)
(*     modules/03-agents/examples/11_error_boundaries.rs,                  *)
(*   - CodeAnalysisFsm of                                                  *)
(*     modules/03-agents/examples/10_code_analysis_fsm.rs.                 *)
(*                                                                         *)
(* Each machine has its own specifications: Spec (the builder and its Fsm) *)
(* and SpecBuilder (the same with the builder's calls recorded);           *)
(* SpecRefactor and SpecRefactorLive (the RefactorFsm under any events,    *)
(* hooks and rollbacks), SpecWorkflow and SpecWorkflowLive (the            *)
(* RefactorFsm along a refactor workflow), SpecBench (the benchmark loop,  *)
(* with at most one further event); SpecAsync (requests under one parent   *)
(* token); SpecLifecycle (the RefactorFsm under progress events with a few  *)
(* pauses, cancellations and errors); SpecBasic (the foundations FSM);     *)
(* SpecCalculator and SpecArith (a Calculator under any calls, and         *)
(* Operation::execute on every operation); SpecServer, SpecServerBuilder   *)
(* (a Server made by a ServerBuilder) and SpecTasks (one Server shared by  *)
(* concurrent tasks); SpecProp (the generated FsmInput); SpecCompletion    *)
(* (the RefactorFsm under accepted events of every kind and rollbacks);    *)
(* SpecStdio, SpecRetry, SpecBreaker and SpecAnalysis. The variables of    *)
(* the other machines stay as constructed.                                 *)
(***************************************************************************)
EXTENDS Integers, Sequences, FiniteSets, TLC

VARIABLES
    \* ---- FsmBuilder / Fsm (08_fsm_builder.rs) ----
    phase,             \* "builder": the FsmBuilder is live; "fsm": build() returned Ok;
                       \* "build_err": build() returned Err
    initial_state,     \* FsmBuilder.initial_state : Option<S>
    transitions,       \* FsmBuilder.transitions, moved into Fsm.transitions by build()
    guards,            \* FsmBuilder.guards, moved into Fsm.guards by build()
    invariants,        \* FsmBuilder.invariants, moved into Fsm.invariants by build()
    current_state,     \* Fsm.current_state
    event_history,     \* Fsm.event_history
    transition_count,  \* Fsm.transition_count
    fsm_last,          \* observation: the last Fsm::process_event call (event, result, state before)
    builder_calls,     \* observation: the calls made on the FsmBuilder, in order (when recorded)
    recording,         \* whether the calls on the FsmBuilder are recorded
    \* ---- RefactorFsm (09_refactor_fsm.rs) ----
    state,             \* RefactorFsm.state
    history,           \* RefactorFsm.history : VecDeque<RefactorState>
    event_log,         \* RefactorFsm.event_log
    pre_hooks,         \* RefactorFsm.pre_hooks
    post_hooks,        \* RefactorFsm.post_hooks
    rollback_stack,    \* RefactorFsm.rollback_stack
    rf_pc,             \* "idle", or "rollback" while a rollback() call is inside its loop
    rf_last,           \* observation: the last RefactorFsm call (what it saw, what the hooks saw)
    left,              \* observation: every state left by an accepted transition, in order
    accepted,          \* observation: every accepted event with the state it was accepted in
    bench_i,           \* benchmark_transitions: the loop counter i
    bench_extra,       \* whether an event from outside the loop was submitted during it
    \* ---- handle_request and its CancellationToken (14_async_handler.rs) ----
    token_cancelled,   \* `token`: whether token.cancel() was called
    child_cancelled,   \* per request, whether its child token is cancelled
    request,           \* per request: "none" (not spawned), "waiting" (inside select!), "done"
    timer_elapsed,     \* per request, whether its sleep(50ms) has elapsed
    results,           \* per request, the values handle_request returned, in order
    first_done,        \* observation: per request, which happened first, "cancel" or "work"
    last_poll,         \* observation: per request, what was the case when it was last polled
    \* ---- FSM (01-foundations/src/fsm.rs) ----
    fsm_current_state,     \* FSM.current_state
    fsm_transitions,       \* FSM.transitions
    fsm_transition_count,  \* FSM.transition_count
    fsm_last_transition_time,  \* FSM.last_transition_time: None or Some
    fsm_calls,         \* observation: the process_event calls made, in order
    \* ---- Calculator (02-setup/src/calculator.rs) ----
    calc_state,        \* Calculator.state: [tag, msg], msg the String of Error
    calc_history,      \* Calculator.history : VecDeque<Operation>
    max_history,       \* Calculator.max_history
    calc_last,         \* observation: the last call on the Calculator
    calc_ok_ops,       \* observation: the operations that succeeded since the
                       \* history was last empty by construction, clear or reset
    calc_calls,        \* observation: the number of calls made
    \* ---- Operation::execute (02-setup/src/calculator.rs) ----
    ex_pc,             \* "idle", or "returned" once execute() was called
    ex_op,             \* the Operation execute() was called on
    ex_result,         \* the Result it returned
    \* ---- Server (pmcp/src/server.rs) ----
    srv_phase,         \* "builder": a ServerBuilder is live; "server": the Server exists
    srv_tools,         \* capabilities.tools, as the names of the tools in order
    handlers,          \* Server.handlers: method name -> handler, None when absent
    srv_last,          \* observation: the last handle_request call and what it returned
    task_pc,           \* per task holding a clone of the Server: where its call stands
    task_call,         \* per task: the call it makes (kind, name, handler)
    lock_writer,       \* the RwLock of handlers: the task holding the write guard, 0 if none
    lock_readers,      \* the RwLock of handlers: the tasks holding a read guard
    table_partial,     \* an insert into the HashMap has begun and not ended
    reg_log,           \* observation: the inserts made, in order
    reg_returned,      \* observation: the inserts whose register_tool has returned
    task_floor,        \* observation, per request: the newest insert under its method
                       \* whose register_tool had returned when the request started
    task_got,          \* observation, per request: what handlers.get() gave it
    \* ---- FsmInput (05-testing/examples/16_property_tests.rs) ----
    prop_pc,           \* "idle", "generated" (an FsmInput exists), "returned"
    prop_input,        \* the FsmInput generated last
    prop_result,       \* what fsm_is_deterministic returned on it
    \* ---- run_stdio_server (final_project/src/main.rs) ----
    io_pc,             \* "receive", "handle", "send" or "returned"
    io_request,        \* the request received last
    io_response,       \* the response handle_request returned for it
    io_trace,          \* observation: the receive and send calls made, in order
    io_result,         \* what run_stdio_server returned: "Ok" or "Err", None while it runs
    \* ---- RetryPolicy (03-agents/examples/11_error_boundaries.rs) ----
    retry_pc,          \* "idle", "loop", "sleep", "returned" or "panicked"
    retry_policy,      \* the RetryPolicy: max_attempts, base_delay
    attempt,           \* the local `attempt` of execute
    retry_calls,       \* observation: the results of the invocations of f, in order
    retry_delays,      \* observation: the delays slept, in order
    retry_result,      \* what execute returned
    \* ---- CircuitBreaker (03-agents/examples/11_error_boundaries.rs) ----
    failure_threshold, \* CircuitBreaker.failure_threshold
    failures,          \* CircuitBreaker.failures
    is_open,           \* CircuitBreaker.is_open
    breaker_calls,     \* observation: the calls made on the breaker, in order
    \* ---- CodeAnalysisFsm (03-agents/examples/10_code_analysis_fsm.rs) ----
    analysis_state,    \* CodeAnalysisFsm.state
    analysis_calls     \* observation: the calls made on the FSM, in order

fsmVars == <<phase, initial_state, transitions, guards, invariants,
             current_state, event_history, transition_count, fsm_last,
             builder_calls, recording>>
rfVars == <<state, history, event_log, pre_hooks, post_hooks, rollback_stack,
            rf_pc, rf_last, left, accepted>>
benchVars == <<bench_i, bench_extra>>
asyncVars == <<token_cancelled, child_cancelled, request, timer_elapsed, results,
               first_done, last_poll>>
agentVars == <<fsmVars, rfVars, benchVars, asyncVars>>
basicVars == <<fsm_current_state, fsm_transitions, fsm_transition_count,
               fsm_last_transition_time, fsm_calls>>
calcVars == <<calc_state, calc_history, max_history, calc_last, calc_ok_ops,
              calc_calls>>
arithVars == <<ex_pc, ex_op, ex_result>>
taskVars == <<task_pc, task_call, lock_writer, lock_readers, table_partial,
              reg_log, reg_returned, task_floor, task_got>>
serverVars == <<srv_phase, srv_tools, handlers, srv_last, taskVars>>
propVars == <<prop_pc, prop_input, prop_result>>
stdioVars == <<io_pc, io_request, io_response, io_trace, io_result>>
retryVars == <<retry_pc, retry_policy, attempt, retry_calls, retry_delays,
               retry_result>>
breakerVars == <<failure_threshold, failures, is_open, breaker_calls>>
analysisVars == <<analysis_state, analysis_calls>>
boundaryVars == <<stdioVars, retryVars, breakerVars, analysisVars>>
libVars == <<basicVars, calcVars, arithVars, serverVars, propVars, boundaryVars>>
notBasic == <<agentVars, calcVars, arithVars, serverVars, propVars, boundaryVars>>
notCalc == <<agentVars, basicVars, arithVars, serverVars, propVars, boundaryVars>>
notArith == <<agentVars, basicVars, calcVars, serverVars, propVars, boundaryVars>>
notServer == <<agentVars, basicVars, calcVars, arithVars, propVars, boundaryVars>>
notProp == <<agentVars, basicVars, calcVars, arithVars, serverVars, boundaryVars>>
earlierVars == <<agentVars, basicVars, calcVars, arithVars, serverVars, propVars>>
notStdio == <<earlierVars, retryVars, breakerVars, analysisVars>>
notRetry == <<earlierVars, stdioVars, breakerVars, analysisVars>>
notBreaker == <<earlierVars, stdioVars, retryVars, analysisVars>>
notAnalysis == <<earlierVars, stdioVars, retryVars, breakerVars>>
vars == <<agentVars, libVars>>

\* ------------------------------------------------------------------------
\* Bounds of the model
\* ------------------------------------------------------------------------
MaxTransitions == 2     \* transitions registered with the builder
MaxInvariants == 2      \* invariants registered with the builder
MaxEvents == 3          \* events accepted by an Fsm
MaxBuilderCalls == 4    \* calls on a builder whose calls are recorded
MaxSubmitted == 2       \* events submitted to a RefactorFsm
MaxHooks == 2           \* pre-hooks, and post-hooks, registered with a RefactorFsm
MaxWorkflowEvents == 7 \* events submitted along a refactor workflow
MaxLifecycleEvents == 8 \* events submitted along a lifecycle run
MaxControl == 2        \* of them, the ones that are not progress events
MaxCompletionEvents == 9 \* events accepted along a run that can complete
MaxDetours == 1        \* of them, the ones that leave the workflow's path
MaxRejected == 1       \* of them, the rejected ones
MaxCalcCalls == 4      \* calls on a Calculator
MaxHistoryInput == 2   \* largest n given to Calculator::with_max_history
U32Bits == 3            \* bits of the integers standing for u32
MaxThreshold == 3       \* largest threshold given to CircuitBreaker::new
MaxBreakerCalls == 5    \* calls on a CircuitBreaker
MaxAnalysisCalls == 5   \* calls on a CodeAnalysisFsm
MaxStdioRequests == 2  \* requests read from stdin
MaxTasks == 3          \* tasks calling the Server through clones of it
MaxTools == 2          \* tools given to a ServerBuilder
MaxRaw == 12           \* largest magnitude of the i32 drawn for an FsmInput
IntWidth == 4          \* bits of the integers standing for i64
MaxBasicCalls == 4     \* process_event calls on the foundations FSM
MaxRequests == 2       \* requests spawned with a child token
MaxBenchIters == 160    \* iterations of the benchmark loop that are explored

\* ------------------------------------------------------------------------
\* 08_fsm_builder.rs : State, Event, FsmBuilder, Fsm
\* ------------------------------------------------------------------------
None == "None"

\* enum State
State == {"Init", "Processing", "Waiting", "Complete", "Error"}

\* enum Event: a tag and, for Process / Wait / Fail, a payload (0 for the
\* payload-free variants Start and Finish).
EventTag == {"Start", "Process", "Wait", "Finish", "Fail"}
Ev(tag, payload) == [tag |-> tag, payload |-> payload]

\* A discriminant that tells payloads apart.
discriminant_WithPayload(event) == event

\* std::mem::discriminant(&event): the variant, whatever the payload.
discriminant(event) == event.tag

\* The events submitted to process_event.
EventInputs == {Ev("Start", 0), Ev("Wait", 0), Ev("Wait", 1), Ev("Finish", 0)}

\* The guard names used by guarded_transition and add_guard.
GuardNames == {"g1", "g2"}

\* The closures handed to add_guard: Fn(&S, &E) -> bool.
GuardClosures == {"always_true", "always_false", "payload_positive"}

\* Calling a guard closure on (state, event).
CallGuard(closure, s, event) ==
    CASE closure = "always_true" -> TRUE
      [] closure = "always_false" -> FALSE
      [] closure = "payload_positive" -> event.payload > 0

\* The closures handed to add_invariant: Fn(&S) -> bool.
InvariantClosures == {"not_error", "not_complete"}

\* Calling an invariant closure on a state.
CallInvariant(closure, s) ==
    CASE closure = "not_error" -> s # "Error"
      [] closure = "not_complete" -> s # "Complete"

\* struct Transition
Tr(from, to, event, guard_name) ==
    [from |-> from, to |-> to, event |-> event, guard_name |-> guard_name]

\* The (from, to, event, guard_name) arguments the builder is called with:
\* overlapping candidates for (Init, Start) and (Processing, Wait).
TransitionInputs ==
    { Tr("Init", "Processing", Ev("Start", 0), None),
      Tr("Init", "Complete", Ev("Start", 0), "g1"),
      Tr("Init", "Error", Ev("Start", 0), "g2"),
      Tr("Processing", "Complete", Ev("Wait", 100), "g1"),
      Tr("Processing", "Error", Ev("Wait", 100), None),
      Tr("Processing", "Init", Ev("Finish", 0), None) }

InitialStateInputs == {"Init", "Processing"}

\* FsmBuilder::new; no Fsm exists yet.
FsmInit ==
    /\ phase = "builder"
    /\ initial_state = None
    /\ transitions = <<>>
    /\ guards = [n \in GuardNames |-> None]
    /\ invariants = <<>>
    /\ current_state = None
    /\ event_history = <<>>
    /\ transition_count = 0
    /\ fsm_last = [called |-> FALSE, event |-> Ev(None, 0),
                   result |-> [kind |-> None, idx |-> 0, state |-> None],
                   pre |-> [current_state |-> None, event_history |-> <<>>,
                            transition_count |-> 0]]
    /\ builder_calls = <<>>

\* A call on the builder: the method and its argument.
Call(op, arg) == [op |-> op, arg |-> arg]

\* A recorded builder takes MaxBuilderCalls calls.
CanCall == recording => Len(builder_calls) < MaxBuilderCalls

Record(call) ==
    /\ builder_calls' = IF recording THEN Append(builder_calls, call) ELSE builder_calls
    /\ UNCHANGED recording

callVars == <<builder_calls, recording>>

fsmRuntime == <<current_state, event_history, transition_count, fsm_last>>

\* initial_state keeping the first value it was given.
Builder_initial_state_FirstWins(s) ==
    /\ phase = "builder"
    /\ CanCall
    /\ initial_state' = IF initial_state = None THEN s ELSE initial_state
    /\ Record(Call("initial_state", s))
    /\ UNCHANGED <<phase, transitions, guards, invariants, fsmRuntime>>
    /\ UNCHANGED <<rfVars, benchVars, asyncVars, libVars>>

\* FsmBuilder::initial_state
Builder_initial_state(s) ==
    /\ phase = "builder"
    /\ CanCall
    /\ initial_state' = s
    /\ Record(Call("initial_state", s))
    /\ UNCHANGED <<phase, transitions, guards, invariants, fsmRuntime>>
    /\ UNCHANGED <<rfVars, benchVars, asyncVars, libVars>>

\* guarded_transition looking its guard up as it is called: a name with no
\* closure registered yet leaves the transition unguarded.
Builder_transition_BindsGuardNow(t) ==
    /\ phase = "builder"
    /\ CanCall
    /\ Len(transitions) < MaxTransitions
    /\ transitions' = Append(transitions,
                             IF t.guard_name # None /\ guards[t.guard_name] = None
                             THEN [t EXCEPT !.guard_name = None] ELSE t)
    /\ Record(Call("transition", t))
    /\ UNCHANGED <<phase, initial_state, guards, invariants, fsmRuntime>>
    /\ UNCHANGED <<rfVars, benchVars, asyncVars, libVars>>

\* FsmBuilder::transition and FsmBuilder::guarded_transition (guard_name = None
\* for the former).
Builder_transition(t) ==
    /\ phase = "builder"
    /\ CanCall
    /\ Len(transitions) < MaxTransitions
    /\ transitions' = Append(transitions, t)
    /\ Record(Call("transition", t))
    /\ UNCHANGED <<phase, initial_state, guards, invariants, fsmRuntime>>
    /\ UNCHANGED <<rfVars, benchVars, asyncVars, libVars>>

\* FsmBuilder::add_guard: HashMap::insert, the last closure under a name wins.
Builder_add_guard(name, closure) ==
    /\ phase = "builder"
    /\ CanCall
    /\ guards' = [guards EXCEPT ![name] = closure]
    /\ Record(Call("add_guard", <<name, closure>>))
    /\ UNCHANGED <<phase, initial_state, transitions, invariants, fsmRuntime>>
    /\ UNCHANGED <<rfVars, benchVars, asyncVars, libVars>>

\* FsmBuilder::add_invariant
Builder_add_invariant(closure) ==
    /\ phase = "builder"
    /\ CanCall
    /\ Len(invariants) < MaxInvariants
    /\ invariants' = Append(invariants, closure)
    /\ Record(Call("add_invariant", closure))
    /\ UNCHANGED <<phase, initial_state, transitions, guards, fsmRuntime>>
    /\ UNCHANGED <<rfVars, benchVars, asyncVars, libVars>>

\* build falling back on State::Init when no initial state was given.
Builder_build_DefaultsInitialState ==
    /\ phase = "builder"
    /\ phase' = "fsm"
    /\ current_state' = IF initial_state = None THEN "Init" ELSE initial_state
    /\ event_history' = <<>>
    /\ transition_count' = 0
    /\ UNCHANGED <<initial_state, transitions, guards, invariants, fsm_last, callVars>>
    /\ UNCHANGED <<rfVars, benchVars, asyncVars, libVars>>

\* FsmBuilder::build
Builder_build ==
    /\ phase = "builder"
    /\ IF initial_state = None
       THEN /\ phase' = "build_err"
            /\ UNCHANGED current_state
       ELSE /\ phase' = "fsm"
            /\ current_state' = initial_state
    /\ event_history' = <<>>
    /\ transition_count' = 0
    /\ UNCHANGED <<initial_state, transitions, guards, invariants, fsm_last, callVars>>
    /\ UNCHANGED <<rfVars, benchVars, asyncVars, libVars>>

\* Lines 112-118: a transition without a guard name passes; so does one whose
\* guard name is not in the map (the `if let Some(guard)` has no else); a
\* registered guard decides by its value on (current_state, event).
GuardAllows(t, event) ==
    IF t.guard_name = None THEN TRUE
    ELSE IF guards[t.guard_name] = None THEN TRUE
    ELSE CallGuard(guards[t.guard_name], current_state, event)

\* CheckInvariants with the invariants called on the state being left.
CheckInvariants_OnCurrentState(new_state) ==
    \A k \in 1..Len(invariants) : CallInvariant(invariants[k], current_state)

\* Lines 122-126: every invariant on the candidate state, in order.
CheckInvariants(new_state) ==
    \A k \in 1..Len(invariants) : CallInvariant(invariants[k], new_state)

\* Scan with the last accepted candidate winning instead of the first.
RECURSIVE Scan_LastWins(_, _)
Scan_LastWins(i, event) ==
    IF i > Len(transitions)
    THEN [kind |-> "NoValidTransition", idx |-> 0, state |-> current_state]
    ELSE LET t == transitions[i]
             later == Scan_LastWins(i + 1, event)
         IN IF later.kind # "NoValidTransition" THEN later
            ELSE IF /\ current_state = t.from
                    /\ discriminant(event) = discriminant(t.event)
                    /\ (t.guard_name = None \/ guards[t.guard_name] = None
                        \/ CallGuard(guards[t.guard_name], current_state, event))
            THEN IF \A k \in 1..Len(invariants) : CallInvariant(invariants[k], t.to)
                 THEN [kind |-> "Ok", idx |-> i, state |-> t.to]
                 ELSE [kind |-> "InvariantViolation", idx |-> i, state |-> t.to]
            ELSE later

\* Scan with an invariant failure skipping to the next candidate (`continue`
\* in place of `return Err`).
RECURSIVE Scan_ContinuesOnViolation(_, _)
Scan_ContinuesOnViolation(i, event) ==
    IF i > Len(transitions)
    THEN [kind |-> "NoValidTransition", idx |-> 0, state |-> current_state]
    ELSE LET t == transitions[i] IN
         IF /\ current_state = t.from
            /\ discriminant(event) = discriminant(t.event)
            /\ (t.guard_name = None \/ guards[t.guard_name] = None
                \/ CallGuard(guards[t.guard_name], current_state, event))
            /\ \A k \in 1..Len(invariants) : CallInvariant(invariants[k], t.to)
         THEN [kind |-> "Ok", idx |-> i, state |-> t.to]
         ELSE Scan_ContinuesOnViolation(i + 1, event)

\* Lines 109-137: the loop over the table from entry i on; the result of the
\* call: Ok with the entry taken, or one of the two errors.
RECURSIVE Scan(_, _)
Scan(i, event) ==
    IF i > Len(transitions)
    THEN [kind |-> "NoValidTransition", idx |-> 0, state |-> current_state]
    ELSE LET t == transitions[i] IN
         IF /\ current_state = t.from
            /\ discriminant(event) = discriminant(t.event)
            /\ GuardAllows(t, event)
         THEN IF CheckInvariants(t.to)
              THEN [kind |-> "Ok", idx |-> i, state |-> t.to]
              ELSE [kind |-> "InvariantViolation", idx |-> i, state |-> t.to]
         ELSE Scan(i + 1, event)

\* Reject with every attempt counted.
Reject_CountsAttempt ==
    /\ transition_count' = transition_count + 1
    /\ UNCHANGED <<current_state, event_history>>

\* Lines 124 and 137: return Err(..) from an Fsm that was not written to.
Reject == UNCHANGED <<current_state, event_history, transition_count>>

\* The commit without the counter.
Commit_KeepsCounter(new_state, event) ==
    /\ current_state' = new_state
    /\ event_history' = Append(event_history, event)
    /\ UNCHANGED transition_count

\* Lines 128-132: the commit.
Commit(new_state, event) ==
    /\ current_state' = new_state
    /\ event_history' = Append(event_history, event)
    /\ transition_count' = transition_count + 1

\* Fsm::process_event
Fsm_process_event(event) ==
    /\ phase = "fsm"
    /\ Len(event_history) < MaxEvents
    /\ LET r == Scan(1, event) IN
       /\ fsm_last' = [called |-> TRUE, event |-> event, result |-> r,
                       pre |-> [current_state |-> current_state,
                                event_history |-> event_history,
                                transition_count |-> transition_count]]
       /\ IF r.kind = "Ok" THEN Commit(r.state, event) ELSE Reject
    /\ UNCHANGED <<phase, initial_state, transitions, guards, invariants, callVars>>
    /\ UNCHANGED <<rfVars, benchVars, asyncVars, libVars>>

\* ------------------------------------------------------------------------
\* 09_refactor_fsm.rs : RefactorState, RefactorEvent, RefactorFsm
\* ------------------------------------------------------------------------
\* enum RefactorState
RefactorState ==
    {"Init", "Parsing", "Analyzing", "Planning", "Refactoring", "Testing",
     "Validating", "Complete", "Error", "Rollback", "Cancelled", "Paused"}

\* enum RefactorEvent, as a tag and a payload. The payload is the number the
\* code reads or carries: TestsRun's result.failed, ValidationComplete's flag
\* (1 for true, 0 for false), the usize of ParseComplete / RefactorApplied, an
\* index standing for the String / Vec / plan of the others, 0 for the
\* payload-free variants.
RefactorEvents ==
    { Ev("Start", 0), Ev("ParseComplete", 1), Ev("AnalysisComplete", 0),
      Ev("PlanGenerated", 0), Ev("RefactorApplied", 1),
      Ev("TestsRun", 0), Ev("TestsRun", 1),
      Ev("ValidationComplete", 1), Ev("ValidationComplete", 0),
      Ev("ErrorOccurred", 0), Ev("Cancel", 0), Ev("Pause", 0),
      Ev("Resume", 0), Ev("Rollback", 0) }

\* The events that report the progress of a refactor workflow.
WorkflowEvents ==
    { Ev("Start", 0), Ev("ParseComplete", 1), Ev("AnalysisComplete", 0),
      Ev("PlanGenerated", 0), Ev("RefactorApplied", 1),
      Ev("TestsRun", 0), Ev("TestsRun", 1),
      Ev("ValidationComplete", 1), Ev("ValidationComplete", 0) }

HistoryCapacity == 100

Invalid == "Invalid"

\* Lines 76-88: define_transitions()
define_transitions ==
    << <<"Init", "Parsing">>, <<"Parsing", "Analyzing">>, <<"Analyzing", "Planning">>,
       <<"Planning", "Refactoring">>, <<"Refactoring", "Testing">>,
       <<"Testing", "Validating">>, <<"Validating", "Complete">>,
       <<"Validating", "Rollback">>, <<"Rollback", "Init">> >>

\* The oldest entry of the history in place of the newest.
HistoryBackOrInit_Front(h) == IF Len(h) = 0 THEN "Init" ELSE h[1]

\* history.back().copied().unwrap_or(RefactorState::Init)
HistoryBackOrInit(h) == IF Len(h) = 0 THEN "Init" ELSE h[Len(h)]

\* The match with Resume in Paused always completing the workflow.
new_state_ResumeCompletes(s, h, event) ==
    CASE s = "Init" /\ event.tag = "Start" -> "Parsing"
      [] s = "Parsing" /\ event.tag = "ParseComplete" -> "Analyzing"
      [] s = "Analyzing" /\ event.tag = "AnalysisComplete" -> "Planning"
      [] s = "Planning" /\ event.tag = "PlanGenerated" -> "Refactoring"
      [] s = "Refactoring" /\ event.tag = "RefactorApplied" -> "Testing"
      [] s = "Testing" /\ event.tag = "TestsRun" ->
            IF event.payload = 0 THEN "Validating" ELSE "Rollback"
      [] s = "Validating" /\ event.tag = "ValidationComplete" ->
            IF event.payload = 1 THEN "Complete" ELSE "Rollback"
      [] event.tag = "ErrorOccurred" -> "Error"
      [] event.tag = "Cancel" -> "Cancelled"
      [] event.tag = "Pause" -> "Paused"
      [] s = "Paused" /\ event.tag = "Resume" -> "Complete"
      [] event.tag = "Rollback" -> "Rollback"
      [] OTHER -> Invalid

\* The match with the counts and flags of the checks ignored: TestsRun always
\* leads to Validating and ValidationComplete to Complete.
new_state_IgnoresFailedChecks(s, h, event) ==
    CASE s = "Init" /\ event.tag = "Start" -> "Parsing"
      [] s = "Parsing" /\ event.tag = "ParseComplete" -> "Analyzing"
      [] s = "Analyzing" /\ event.tag = "AnalysisComplete" -> "Planning"
      [] s = "Planning" /\ event.tag = "PlanGenerated" -> "Refactoring"
      [] s = "Refactoring" /\ event.tag = "RefactorApplied" -> "Testing"
      [] s = "Testing" /\ event.tag = "TestsRun" -> "Validating"
      [] s = "Validating" /\ event.tag = "ValidationComplete" -> "Complete"
      [] event.tag = "ErrorOccurred" -> "Error"
      [] event.tag = "Cancel" -> "Cancelled"
      [] event.tag = "Pause" -> "Paused"
      [] s = "Paused" /\ event.tag = "Resume" -> HistoryBackOrInit(h)
      [] event.tag = "Rollback" -> "Rollback"
      [] OTHER -> Invalid

\* The match with ErrorOccurred refused in Complete, Error and Cancelled.
new_state_ErrorKeepsTerminal(s, h, event) ==
    CASE s = "Init" /\ event.tag = "Start" -> "Parsing"
      [] s = "Parsing" /\ event.tag = "ParseComplete" -> "Analyzing"
      [] s = "Analyzing" /\ event.tag = "AnalysisComplete" -> "Planning"
      [] s = "Planning" /\ event.tag = "PlanGenerated" -> "Refactoring"
      [] s = "Refactoring" /\ event.tag = "RefactorApplied" -> "Testing"
      [] s = "Testing" /\ event.tag = "TestsRun" ->
            IF event.payload = 0 THEN "Validating" ELSE "Rollback"
      [] s = "Validating" /\ event.tag = "ValidationComplete" ->
            IF event.payload = 1 THEN "Complete" ELSE "Rollback"
      [] event.tag = "ErrorOccurred" /\ s \notin {"Complete", "Error", "Cancelled"} -> "Error"
      [] event.tag = "Cancel" -> "Cancelled"
      [] event.tag = "Pause" -> "Paused"
      [] s = "Paused" /\ event.tag = "Resume" -> HistoryBackOrInit(h)
      [] event.tag = "Rollback" -> "Rollback"
      [] OTHER -> Invalid

\* Lines 93-127: the match on (&self.state, event), arm by arm in source order;
\* Invalid stands for the `_ => return Err(..)` arm.
new_state(s, h, event) ==
    CASE s = "Init" /\ event.tag = "Start" -> "Parsing"
      [] s = "Parsing" /\ event.tag = "ParseComplete" -> "Analyzing"
      [] s = "Analyzing" /\ event.tag = "AnalysisComplete" -> "Planning"
      [] s = "Planning" /\ event.tag = "PlanGenerated" -> "Refactoring"
      [] s = "Refactoring" /\ event.tag = "RefactorApplied" -> "Testing"
      [] s = "Testing" /\ event.tag = "TestsRun" ->
            IF event.payload = 0 THEN "Validating" ELSE "Rollback"
      [] s = "Validating" /\ event.tag = "ValidationComplete" ->
            IF event.payload = 1 THEN "Complete" ELSE "Rollback"
      [] event.tag = "ErrorOccurred" -> "Error"
      [] event.tag = "Cancel" -> "Cancelled"
      [] event.tag = "Pause" -> "Paused"
      [] s = "Paused" /\ event.tag = "Resume" -> HistoryBackOrInit(h)
      [] event.tag = "Rollback" -> "Rollback"
      [] OTHER -> Invalid

\* PushHistory evicting the newest entry (pop_back in place of pop_front).
PushHistory_PopBack(h, s) ==
    LET pushed == Append(h, s) IN
    IF Len(pushed) > HistoryCapacity THEN SubSeq(pushed, 1, Len(pushed) - 1) ELSE pushed

\* Lines 137-140: push_back, then pop_front once the length passes the capacity.
PushHistory(h, s) ==
    LET pushed == Append(h, s) IN
    IF Len(pushed) > HistoryCapacity THEN Tail(pushed) ELSE pushed

\* One call of a hook closure: which hook ran, in which loop, the state it
\* was handed, and how long the ledger and the stack were at that moment.
HookCall(hook, loop, seen, h, stack) ==
    [hook |-> hook, loop |-> loop, seen |-> seen,
     history_len |-> Len(h), stack_len |-> Len(stack)]

\* `for hook in hooks { hook(&s) }`
RunHooks(hooks, loop, seen, h, stack) ==
    [k \in 1..Len(hooks) |-> HookCall(hooks[k], loop, seen, h, stack)]

\* The fields of the RefactorFsm as one value.
Self ==
    [state |-> state, history |-> history, event_log |-> event_log,
     pre_hooks |-> pre_hooks, post_hooks |-> post_hooks,
     rollback_stack |-> rollback_stack]

Observation(op, event, ok, trace, visited) ==
    [op |-> op, event |-> event, ok |-> ok,
     pre_state |-> state, pre_history |-> history,
     pre_stack |-> rollback_stack, pre_log |-> event_log,
     pre_hooks |-> pre_hooks, post_hooks |-> post_hooks,
     trace |-> trace, visited |-> visited]

\* RefactorFsm::new
RefactorInit ==
    /\ state = "Init"
    /\ history = <<>>
    /\ event_log = <<>>
    /\ pre_hooks = <<>>
    /\ post_hooks = <<>>
    /\ rollback_stack = <<>>
    /\ rf_pc = "idle"
    /\ rf_last = [op |-> None, event |-> Ev(None, 0), ok |-> TRUE,
                  pre_state |-> "Init", pre_history |-> <<>>,
                  pre_stack |-> <<>>, pre_log |-> <<>>,
                  pre_hooks |-> <<>>, post_hooks |-> <<>>,
                  trace |-> <<>>, visited |-> <<>>]
    /\ left = <<>>
    /\ accepted = <<>>

\* transition_to with the post-hooks run before the state is switched.
transition_to_PostBeforeSwitch(f, to) ==
    LET pre == RunHooks(f.pre_hooks, "pre", f.state, f.history, f.rollback_stack)
        history2 == PushHistory(f.history, f.state)
        stack2 == Append(f.rollback_stack, f.state)
        post == RunHooks(f.post_hooks, "post", f.state, history2, stack2)
    IN [fsm |-> [f EXCEPT !.history = history2, !.rollback_stack = stack2,
                          !.state = to],
        ok |-> TRUE, trace |-> pre \o post]

\* transition_to pushing the state being entered on the rollback stack.
transition_to_PushesTarget(f, to) ==
    LET pre == RunHooks(f.pre_hooks, "pre", f.state, f.history, f.rollback_stack)
        history2 == PushHistory(f.history, f.state)
        stack2 == Append(f.rollback_stack, to)
        post == RunHooks(f.post_hooks, "post", to, history2, stack2)
    IN [fsm |-> [f EXCEPT !.history = history2, !.rollback_stack = stack2,
                          !.state = to],
        ok |-> TRUE, trace |-> pre \o post]

\* Lines 132-150: RefactorFsm::transition_to on the fields f: the fields
\* afterwards, the Ok it returns, and the hook calls it made, in order.
transition_to(f, to) ==
    LET pre == RunHooks(f.pre_hooks, "pre", f.state, f.history, f.rollback_stack)
        history2 == PushHistory(f.history, f.state)
        stack2 == Append(f.rollback_stack, f.state)
        post == RunHooks(f.post_hooks, "post", to, history2, stack2)
    IN [fsm |-> [f EXCEPT !.history = history2, !.rollback_stack = stack2,
                          !.state = to],
        ok |-> TRUE, trace |-> pre \o post]

\* RejectEvent with the rollback stack pushed before the match, as the log is.
RejectEvent_PushesStack(f) ==
    [fsm |-> [f EXCEPT !.rollback_stack = Append(@, f.state)],
     ok |-> FALSE, trace |-> <<>>]

\* Line 126: `_ => return Err(..)`, nothing after the log entry is written.
RejectEvent(f) == [fsm |-> f, ok |-> FALSE, trace |-> <<>>]

\* Line 91: self.event_log.push(event.clone()), before the match.
LogEvent(f, event) == [f EXCEPT !.event_log = Append(@, event)]

\* Lines 90-130: RefactorFsm::process_event on the fields f.
process_event(f, event) ==
    LET logged == LogEvent(f, event)
        to == new_state(logged.state, logged.history, event)
    IN IF to = Invalid THEN RejectEvent(logged) ELSE transition_to(logged, to)

\* The fields written back after a call.
Store(f) ==
    /\ state' = f.state
    /\ history' = f.history
    /\ event_log' = f.event_log
    /\ rollback_stack' = f.rollback_stack

\* A call of RefactorFsm::process_event.
RefactorFsm_process_event(event) ==
    /\ rf_pc = "idle"
    /\ Len(event_log) < MaxSubmitted
    /\ LET r == process_event(Self, event) IN
       /\ Store(r.fsm)
       /\ rf_last' = Observation("process_event", event, r.ok, r.trace, <<>>)
       /\ left' = IF r.ok THEN Append(left, state) ELSE left
       /\ accepted' = IF r.ok THEN Append(accepted, [from |-> state, event |-> event])
                      ELSE accepted
    /\ UNCHANGED <<pre_hooks, post_hooks, rf_pc>>
    /\ UNCHANGED <<fsmVars, benchVars, asyncVars, libVars>>

\* A call of RefactorFsm::process_event made along a refactor workflow: long
\* enough a run to reach Complete, with few rejected events on the way.
workflow_process_event(event) ==
    /\ rf_pc = "idle"
    /\ Len(event_log) < MaxWorkflowEvents
    /\ LET r == process_event(Self, event) IN
       /\ r.ok \/ Len(event_log) - Len(left) < MaxRejected
       /\ Store(r.fsm)
       /\ rf_last' = Observation("process_event", event, r.ok, r.trace, <<>>)
       /\ left' = IF r.ok THEN Append(left, state) ELSE left
       /\ accepted' = IF r.ok THEN Append(accepted, [from |-> state, event |-> event])
                      ELSE accepted
    /\ UNCHANGED <<pre_hooks, post_hooks, rf_pc>>
    /\ UNCHANGED <<fsmVars, benchVars, asyncVars, libVars>>

\* A call of RefactorFsm::process_event made along the life of one workflow:
\* any event, few of them other than progress events, few rejected.
lifecycle_process_event(event) ==
    /\ rf_pc = "idle"
    /\ Len(event_log) < MaxLifecycleEvents
    /\ event \notin WorkflowEvents =>
          Len(SelectSeq(event_log, LAMBDA e : e \notin WorkflowEvents)) < MaxControl
    /\ LET r == process_event(Self, event) IN
       /\ r.ok \/ Len(event_log) - Len(left) < MaxRejected
       /\ Store(r.fsm)
       /\ rf_last' = Observation("process_event", event, r.ok, r.trace, <<>>)
       /\ left' = IF r.ok THEN Append(left, state) ELSE left
       /\ accepted' = IF r.ok THEN Append(accepted, [from |-> state, event |-> event])
                      ELSE accepted
    /\ UNCHANGED <<pre_hooks, post_hooks, rf_pc>>
    /\ UNCHANGED <<fsmVars, benchVars, asyncVars, libVars>>

\* A call of RefactorFsm::process_event that is accepted, along a run long
\* enough to complete the workflow and leave Complete again: any event, few
\* of them other than progress events.
completion_process_event(event) ==
    /\ rf_pc = "idle"
    /\ Len(event_log) < MaxCompletionEvents
    /\ event \notin WorkflowEvents \cup {Ev("Resume", 0)} =>
          Len(SelectSeq(event_log, LAMBDA e : e \notin WorkflowEvents
                                               /\ e.tag # "Resume")) < MaxDetours
    /\ LET r == process_event(Self, event) IN
       /\ r.ok
       /\ Store(r.fsm)
       /\ rf_last' = Observation("process_event", event, r.ok, r.trace, <<>>)
       /\ left' = IF r.ok THEN Append(left, state) ELSE left
       /\ accepted' = IF r.ok THEN Append(accepted, [from |-> state, event |-> event])
                      ELSE accepted
    /\ UNCHANGED <<pre_hooks, post_hooks, rf_pc>>
    /\ UNCHANGED <<fsmVars, benchVars, asyncVars, libVars>>

\* Lines 152-154: add_pre_hook. A hook is named by the order of registration.
add_pre_hook ==
    /\ rf_pc = "idle"
    /\ Len(pre_hooks) < MaxHooks
    /\ pre_hooks' = Append(pre_hooks, Len(pre_hooks) + 1)
    /\ UNCHANGED <<state, history, event_log, post_hooks, rollback_stack, rf_pc,
                   rf_last, left, accepted>>
    /\ UNCHANGED <<fsmVars, benchVars, asyncVars, libVars>>

\* Lines 156-158: add_post_hook
add_post_hook ==
    /\ rf_pc = "idle"
    /\ Len(post_hooks) < MaxHooks
    /\ post_hooks' = Append(post_hooks, Len(post_hooks) + 1)
    /\ UNCHANGED <<state, history, event_log, pre_hooks, rollback_stack, rf_pc,
                   rf_last, left, accepted>>
    /\ UNCHANGED <<fsmVars, benchVars, asyncVars, libVars>>

\* Lines 160-161: a call of rollback() enters its loop.
rollback ==
    /\ rf_pc = "idle"
    /\ rf_pc' = "rollback"
    /\ rf_last' = Observation("rollback", Ev(None, 0), TRUE, <<>>, <<>>)
    /\ UNCHANGED <<state, history, event_log, pre_hooks, post_hooks,
                   rollback_stack, left, accepted>>
    /\ UNCHANGED <<fsmVars, benchVars, asyncVars, libVars>>

\* Pop taking the oldest element (a queue in place of a stack).
Pop_Front(stack) == [value |-> stack[1], rest |-> Tail(stack)]

\* Vec::pop: the last element and the rest.
Pop(stack) == [value |-> stack[Len(stack)], rest |-> SubSeq(stack, 1, Len(stack) - 1)]

\* rollback_loop undoing the ledger as well: each turn also drops the newest
\* history entry.
rollback_loop_PopsHistory ==
    /\ rf_pc = "rollback"
    /\ IF Len(rollback_stack) > 0
       THEN /\ state' = rollback_stack[Len(rollback_stack)]
            /\ rollback_stack' = SubSeq(rollback_stack, 1, Len(rollback_stack) - 1)
            /\ history' = SubSeq(history, 1, Len(history) - 1)
            /\ rf_last' = [rf_last EXCEPT !.visited = Append(@, state')]
            /\ UNCHANGED rf_pc
       ELSE /\ state' = "Init"
            /\ rf_pc' = "idle"
            /\ UNCHANGED <<rollback_stack, rf_last, history>>
    /\ UNCHANGED <<event_log, pre_hooks, post_hooks, left, accepted>>
    /\ UNCHANGED <<fsmVars, benchVars, asyncVars, libVars>>

\* Lines 163-170: one turn of `while let Some(prev_state) = pop()` (up to the
\* sleep), or the exit from the loop with state = Init and the return.
rollback_loop ==
    /\ rf_pc = "rollback"
    /\ IF Len(rollback_stack) > 0
       THEN LET p == Pop(rollback_stack) IN
            /\ state' = p.value
            /\ rollback_stack' = p.rest
            /\ rf_last' = [rf_last EXCEPT !.visited = Append(@, p.value)]
            /\ UNCHANGED rf_pc
       ELSE /\ state' = "Init"
            /\ rf_pc' = "idle"
            /\ UNCHANGED <<rollback_stack, rf_last>>
    /\ UNCHANGED <<history, event_log, pre_hooks, post_hooks, left, accepted>>
    /\ UNCHANGED <<fsmVars, benchVars, asyncVars, libVars>>

\* ------------------------------------------------------------------------
\* 09_refactor_fsm.rs : benchmark_transitions
\* ------------------------------------------------------------------------
BenchIterations == 100000

\* Lines 337-341: the event of iteration i.
BenchEvent(i) == IF i % 2 = 0 THEN Ev("Start", i) ELSE Ev("ParseComplete", i)

\* Lines 336-348: one iteration of the loop: process_event, its result
\* dropped, then the state forced to Init every third iteration.
benchmark_step ==
    /\ bench_i < BenchIterations
    /\ bench_i < MaxBenchIters
    /\ LET event == BenchEvent(bench_i)
           r == process_event(Self, event)
       IN /\ Store([r.fsm EXCEPT !.state = IF bench_i % 3 = 0 THEN "Init" ELSE @])
          /\ rf_last' = Observation("process_event", event, r.ok, r.trace, <<>>)
          /\ left' = IF r.ok THEN Append(left, state) ELSE left
          /\ accepted' = IF r.ok THEN Append(accepted, [from |-> state, event |-> event])
                         ELSE accepted
    /\ bench_i' = bench_i + 1
    /\ UNCHANGED <<pre_hooks, post_hooks, rf_pc, bench_extra>>
    /\ UNCHANGED <<fsmVars, asyncVars, libVars>>

\* The same loop over an FSM that is handed one further event, any event,
\* between two of its iterations.
benchmark_extra_event(event) ==
    /\ ~bench_extra
    /\ bench_i < MaxBenchIters
    /\ LET r == process_event(Self, event)
       IN /\ Store(r.fsm)
          /\ rf_last' = Observation("process_event", event, r.ok, r.trace, <<>>)
          /\ left' = IF r.ok THEN Append(left, state) ELSE left
          /\ accepted' = IF r.ok THEN Append(accepted, [from |-> state, event |-> event])
                         ELSE accepted
    /\ bench_extra' = TRUE
    /\ UNCHANGED <<pre_hooks, post_hooks, rf_pc, bench_i>>
    /\ UNCHANGED <<fsmVars, asyncVars, libVars>>

\* ------------------------------------------------------------------------
\* 14_async_handler.rs : handle_request under a CancellationToken
\* ------------------------------------------------------------------------
RequestIds == 1..MaxRequests

\* Lines 67 and 70 before they run: no token is cancelled, nothing is spawned.
AsyncInit ==
    /\ token_cancelled = FALSE
    /\ child_cancelled = [id \in RequestIds |-> FALSE]
    /\ request = [id \in RequestIds |-> "none"]
    /\ timer_elapsed = [id \in RequestIds |-> FALSE]
    /\ results = [id \in RequestIds |-> <<>>]
    /\ first_done = [id \in RequestIds |-> None]
    /\ last_poll = [id \in RequestIds |->
                      [polled |-> FALSE, fired |-> FALSE, elapsed |-> FALSE]]

\* Lines 68-70: token.child_token() and tokio::spawn(handle_request(id,
\* child_token)). The child of a cancelled token is born cancelled. The task
\* enters select! and sleep(50ms) starts.
spawn_handle_request(id) ==
    /\ request[id] = "none"
    /\ request' = [request EXCEPT ![id] = "waiting"]
    /\ child_cancelled' = [child_cancelled EXCEPT ![id] = token_cancelled]
    /\ first_done' = [first_done EXCEPT ![id] = IF token_cancelled THEN "cancel" ELSE None]
    /\ UNCHANGED <<token_cancelled, timer_elapsed, results, last_poll>>
    /\ UNCHANGED <<fsmVars, rfVars, benchVars, libVars>>

\* cancel() that sets the flag of the token it is called on and reaches no
\* child token.
cancel_OwnFlagOnly(children) == children

\* CancellationToken::cancel on the parent: every child token is cancelled
\* with it.
cancel(children) == [id \in DOMAIN children |-> TRUE]

\* Line 73: token.cancel()
token_cancel ==
    /\ ~token_cancelled
    /\ token_cancelled' = TRUE
    /\ child_cancelled' = cancel(child_cancelled)
    /\ first_done' = [id \in RequestIds |->
                        IF request[id] = "waiting" /\ first_done[id] = None
                        THEN "cancel" ELSE first_done[id]]
    /\ UNCHANGED <<request, timer_elapsed, results, last_poll>>
    /\ UNCHANGED <<fsmVars, rfVars, benchVars, libVars>>

\* Line 11: the 50 ms of sleep(Duration::from_millis(50)) are over.
sleep_elapses(id) ==
    /\ request[id] = "waiting"
    /\ ~timer_elapsed[id]
    /\ timer_elapsed' = [timer_elapsed EXCEPT ![id] = TRUE]
    /\ first_done' = [first_done EXCEPT ![id] = IF @ = None THEN "work" ELSE @]
    /\ UNCHANGED <<token_cancelled, child_cancelled, request, results, last_poll>>
    /\ UNCHANGED <<fsmVars, rfVars, benchVars, libVars>>

\* Lines 8 and 11: the branches of select! whose future is ready.
ReadyBranches(id) ==
    {b \in {"cancelled", "sleep"} :
        \/ b = "cancelled" /\ child_cancelled[id]
        \/ b = "sleep" /\ timer_elapsed[id]}

\* Lines 9 and 12: the value of a branch.
BranchResult(b) == IF b = "cancelled" THEN "Err" ELSE "Ok"

\* Lines 7-14: the runtime polls the task inside select!. select! checks its
\* branches in an order picked at random and returns the value of the first
\* one that is ready; with none ready the task stays suspended.
poll_handle_request(id) ==
    /\ request[id] = "waiting"
    /\ last_poll' = [last_poll EXCEPT ![id] =
                        [polled |-> TRUE, fired |-> token_cancelled,
                         elapsed |-> timer_elapsed[id]]]
    /\ IF ReadyBranches(id) = {}
       THEN UNCHANGED <<request, results>>
       ELSE \E b \in ReadyBranches(id) :
               /\ results' = [results EXCEPT ![id] = Append(@, BranchResult(b))]
               /\ request' = [request EXCEPT ![id] = "done"]
    /\ UNCHANGED <<token_cancelled, child_cancelled, timer_elapsed, first_done>>
    /\ UNCHANGED <<fsmVars, rfVars, benchVars, libVars>>

\* ------------------------------------------------------------------------
\* 01-foundations/src/fsm.rs : State, Event, FSM, create_basic_fsm
\* ------------------------------------------------------------------------
\* enum State
BasicState == {"Init", "Running", "Paused", "Complete", "Error"}

\* The events submitted: the payload-free variants and Fail with a string
\* (0 for "error", 1 and 2 for two other strings).
BasicEventInputs ==
    { Ev("Start", 0), Ev("Pause", 0), Ev("Resume", 0), Ev("Finish", 0),
      Ev("Fail", 1), Ev("Fail", 2) }

\* Lines 45-53: the Transition pushed by add_transition, guard: None.
add_transition(from, to, event) ==
    [from |-> from, to |-> to, event |-> event, guard |-> None]

\* Lines 88-99: create_basic_fsm()
create_basic_fsm ==
    << add_transition("Init", "Running", Ev("Start", 0)),
       add_transition("Running", "Paused", Ev("Pause", 0)),
       add_transition("Paused", "Running", Ev("Resume", 0)),
       add_transition("Running", "Complete", Ev("Finish", 0)),
       add_transition("Running", "Error", Ev("Fail", 0)) >>

\* Lines 36-43 and 88-99: the FSM as create_basic_fsm returns it.
BasicInit ==
    /\ fsm_current_state = "Init"
    /\ fsm_transitions = create_basic_fsm
    /\ fsm_transition_count = 0
    /\ fsm_last_transition_time = None
    /\ fsm_calls = <<>>

\* Lines 58-67: the loop over the transitions from entry i on: the index of
\* the first one from state s whose event has the discriminant of `event`,
\* 0 when the loop ends without one.
RECURSIVE FSM_find(_, _, _, _)
FSM_find(table, i, s, event) ==
    IF i > Len(table) THEN 0
    ELSE IF /\ table[i].from = s
            /\ discriminant(table[i].event) = discriminant(event)
         THEN i
         ELSE FSM_find(table, i + 1, s, event)

\* process_event counting every call, accepted or not.
FSM_process_event_CountsCalls(event) ==
    /\ Len(fsm_calls) < MaxBasicCalls
    /\ LET i == FSM_find(fsm_transitions, 1, fsm_current_state, event) IN
       /\ IF i > 0
          THEN /\ fsm_current_state' = fsm_transitions[i].to
               /\ fsm_last_transition_time' = "Some"
          ELSE UNCHANGED <<fsm_current_state, fsm_last_transition_time>>
       /\ fsm_transition_count' = fsm_transition_count + 1
       /\ fsm_calls' = Append(fsm_calls,
                              [event |-> event, ok |-> i > 0,
                               state_before |-> fsm_current_state,
                               count_before |-> fsm_transition_count])
    /\ UNCHANGED fsm_transitions
    /\ UNCHANGED notBasic

\* Lines 55-73: FSM::process_event
FSM_process_event(event) ==
    /\ Len(fsm_calls) < MaxBasicCalls
    /\ LET i == FSM_find(fsm_transitions, 1, fsm_current_state, event) IN
       /\ IF i > 0
          THEN /\ fsm_current_state' = fsm_transitions[i].to
               /\ fsm_transition_count' = fsm_transition_count + 1
               /\ fsm_last_transition_time' = "Some"
          ELSE UNCHANGED <<fsm_current_state, fsm_transition_count,
                           fsm_last_transition_time>>
       /\ fsm_calls' = Append(fsm_calls,
                              [event |-> event, ok |-> i > 0,
                               state_before |-> fsm_current_state,
                               count_before |-> fsm_transition_count])
    /\ UNCHANGED fsm_transitions
    /\ UNCHANGED notBasic

\* ------------------------------------------------------------------------
\* Operation and Calculator (modules/02-setup/src/calculator.rs)
\* ------------------------------------------------------------------------
\* i64 at IntWidth bits, two's complement.
I64_MIN == -(2 ^ (IntWidth - 1))
I64_MAX == 2 ^ (IntWidth - 1) - 1
I64 == I64_MIN .. I64_MAX

\* The value the machine keeps of a result computed without a width.
Wrap(x) == ((x - I64_MIN) % (2 ^ IntWidth)) + I64_MIN

\* Option<i64> and Result<i64, CalculatorError> as records.
SomeI64(v) == [some |-> TRUE, value |-> v]
NoneI64 == [some |-> FALSE, value |-> 0]
Ok(v) == [ok |-> TRUE, value |-> v, err |-> ""]
Err(e) == [ok |-> FALSE, value |-> 0, err |-> e]

\* checked_add that keeps the wrapped sum.
checked_add_Wrapping(a, b) == SomeI64(Wrap(a + b))

\* Line 27: a.checked_add(*b): None when the sum does not survive the width.
checked_add(a, b) ==
    LET wide == a + b IN IF Wrap(wide) = wide THEN SomeI64(wide) ELSE NoneI64

\* Line 30: a.checked_sub(*b)
checked_sub(a, b) ==
    LET wide == a - b IN IF Wrap(wide) = wide THEN SomeI64(wide) ELSE NoneI64

\* Line 33: a.checked_mul(*b)
checked_mul(a, b) ==
    LET wide == a * b IN IF Wrap(wide) = wide THEN SomeI64(wide) ELSE NoneI64

\* The quotient rounded toward zero, as the machine divides.
TruncDiv(a, b) ==
    LET abs(x) == IF x < 0 THEN -x ELSE x
        q == abs(a) \div abs(b)
    IN IF (a < 0) # (b < 0) THEN -q ELSE q

\* Line 40: a.checked_div(*b): None for a zero divisor and for MIN / -1.
checked_div(a, b) ==
    IF b = 0 \/ (a = I64_MIN /\ b = -1) THEN NoneI64 ELSE SomeI64(TruncDiv(a, b))

\* Lines 17-22: enum Operation
OperationTag == {"Add", "Subtract", "Multiply", "Divide"}
Op(tag, a, b) == [tag |-> tag, a |-> a, b |-> b]
Operations == {Op(t, a, b) : t \in OperationTag, a \in I64, b \in I64}

\* ok_or(CalculatorError::Overflow)
ok_or_Overflow(o) == IF o.some THEN Ok(o.value) ELSE Err("Overflow")

\* Lines 24-45: Operation::execute
Operation_execute(op) ==
    CASE op.tag = "Add" -> ok_or_Overflow(checked_add(op.a, op.b))
      [] op.tag = "Subtract" -> ok_or_Overflow(checked_sub(op.a, op.b))
      [] op.tag = "Multiply" -> ok_or_Overflow(checked_mul(op.a, op.b))
      [] op.tag = "Divide" ->
            IF op.b = 0 THEN Err("DivisionByZero")
            ELSE ok_or_Overflow(checked_div(op.a, op.b))

\* A call of Operation::execute on any operation.
execute(op) ==
    /\ ex_pc = "idle"
    /\ ex_pc' = "returned"
    /\ ex_op' = op
    /\ ex_result' = Operation_execute(op)
    /\ UNCHANGED notArith

ArithInit ==
    /\ ex_pc = "idle"
    /\ ex_op = Op("Add", 0, 0)
    /\ ex_result = Ok(0)

\* Lines 5-14: the #[error(...)] messages of CalculatorError
to_string(e) ==
    CASE e = "DivisionByZero" -> "Division by zero"
      [] e = "Overflow" -> "Overflow occurred"
      [] e = "InvalidOperation" -> "Invalid operation"

\* Lines 48-52: enum CalculatorState
Ready == [tag |-> "Ready", msg |-> ""]
Computing == [tag |-> "Computing", msg |-> ""]
Error(msg) == [tag |-> "Error", msg |-> msg]

\* The operations given to a Calculator: one of each kind that succeeds, a
\* division by zero and an overflow.
CalcOperationInputs ==
    { Op("Add", 1, 2), Op("Subtract", 3, 1), Op("Multiply", 2, 3),
      Op("Divide", 6, 2), Op("Divide", 1, 0), Op("Add", I64_MAX, 1) }

CalcCall(call, op, result) ==
    [call |-> call, op |-> op, result |-> result,
     pre_state |-> calc_state, pre_history |-> calc_history]

Constructed_Calculator(n) ==
    /\ calc_state = Ready
    /\ calc_history = <<>>
    /\ max_history = n
    /\ calc_last = [call |-> "new", op |-> Op("Add", 0, 0), result |-> Ok(0),
                    pre_state |-> Ready, pre_history |-> <<>>]
    /\ calc_ok_ops = <<>>
    /\ calc_calls = 0

\* Lines 62-68: Calculator::new
Calculator_new == Constructed_Calculator(100)

\* Lines 70-76: Calculator::with_max_history
Calculator_with_max_history(n) == Constructed_Calculator(n)

\* Lines 110-115: add_to_history
add_to_history(h, max, op) ==
    Append(IF Len(h) >= max /\ h # <<>> THEN Tail(h) ELSE h, op)

\* execute_operation recording the operation before it is executed.
execute_operation_RecordsFailed(op) ==
    /\ calc_calls < MaxCalcCalls
    /\ LET r == Operation_execute(op) IN
       /\ calc_history' = add_to_history(calc_history, max_history, op)
       /\ calc_state' = IF r.ok THEN Ready ELSE Error(to_string(r.err))
       /\ calc_ok_ops' = IF r.ok THEN Append(calc_ok_ops, op) ELSE calc_ok_ops
       /\ calc_last' = CalcCall("execute_operation", op, r)
    /\ calc_calls' = calc_calls + 1
    /\ UNCHANGED max_history
    /\ UNCHANGED notCalc

\* Lines 78-108: add, subtract, multiply and divide, each a call of
\* execute_operation: the state is Computing while the operation executes.
execute_operation(op) ==
    /\ calc_calls < MaxCalcCalls
    /\ LET computing == Computing
           r == Operation_execute(op)
       IN
       /\ IF r.ok
          THEN /\ calc_history' = add_to_history(calc_history, max_history, op)
               /\ calc_state' = Ready
               /\ calc_ok_ops' = Append(calc_ok_ops, op)
          ELSE /\ calc_state' = Error(to_string(r.err))
               /\ UNCHANGED <<calc_history, calc_ok_ops>>
       /\ calc_last' = CalcCall("execute_operation", op, r)
    /\ calc_calls' = calc_calls + 1
    /\ UNCHANGED max_history
    /\ UNCHANGED notCalc

\* Lines 125-127: clear_history
clear_history ==
    /\ calc_calls < MaxCalcCalls
    /\ calc_history' = <<>>
    /\ calc_ok_ops' = <<>>
    /\ calc_last' = CalcCall("clear_history", Op("Add", 0, 0), Ok(0))
    /\ calc_calls' = calc_calls + 1
    /\ UNCHANGED <<calc_state, max_history>>
    /\ UNCHANGED notCalc

\* Lines 129-132: reset
reset ==
    /\ calc_calls < MaxCalcCalls
    /\ calc_state' = Ready
    /\ calc_history' = <<>>
    /\ calc_ok_ops' = <<>>
    /\ calc_last' = CalcCall("reset", Op("Add", 0, 0), Ok(0))
    /\ calc_calls' = calc_calls + 1
    /\ UNCHANGED max_history
    /\ UNCHANGED notCalc

\* ------------------------------------------------------------------------
\* Server (pmcp/src/server.rs)
\* ------------------------------------------------------------------------
\* The names tools are registered under and requests are made to.
Methods == {"calculator", "echo", "search"}

\* serde_json::Value, and Option<Value> as a record.
Null == "null"
Values == {Null, "1", "2"}
SomeValue(v) == [some |-> TRUE, value |-> v]
NoneValue == [some |-> FALSE, value |-> Null]
OptionValues == {NoneValue} \cup {SomeValue(v) : v \in Values}

\* Implementations of ToolHandler: one that returns its params (Null when
\* there are none), one that returns a fixed value, one that fails.
ToolHandlers == {"echo_params", "fixed_value", "failing"}

\* Lines 6-9: ToolHandler::handle
handle(handler, params) ==
    CASE handler = "echo_params" ->
            [ok |-> TRUE, value |-> IF params.some THEN params.value ELSE Null,
             message |-> ""]
      [] handler = "fixed_value" -> [ok |-> TRUE, value |-> "2", message |-> ""]
      [] handler = "failing" -> [ok |-> FALSE, value |-> Null, message |-> "tool failed"]

\* Request (lib.rs lines 34-39) as the server reads it.
Requests ==
    [method : Methods, params : {NoneValue, SomeValue("1")},
     id : {NoneValue, SomeValue("1"), SomeValue("2")}]

\* The codes handle_request puts in the ErrorObject.
ERROR_INTERNAL == -32603
ERROR_METHOD_NOT_FOUND == -32601

\* Option<ErrorObject> as a record.
SomeError(code, message) == [some |-> TRUE, code |-> code, message |-> message]
NoneError == [some |-> FALSE, code |-> 0, message |-> ""]

\* Response (lib.rs lines 42-46) inside the Result handle_request returns.
OkResponse(result, error, id) ==
    [ok |-> TRUE, response |-> [result |-> result, error |-> error, id |-> id]]

\* The tasks that hold a clone of the Server (lines 11-15: the handlers are
\* behind an Arc, so every clone reads and writes the same map).
Tasks == 1 .. MaxTasks

\* The names and handlers the tasks register and ask for.
TaskMethods == {"calculator", "echo"}
TaskHandlers == {"fixed_value", "failing"}

NoCall == [kind |-> "none", name |-> "echo", handler |-> None]
NotRead == [read |-> FALSE, handler |-> None, seen |-> 0, partial |-> FALSE]

\* No task has made a call on the Server, and the lock is free.
TasksInit ==
    /\ task_pc = [t \in Tasks |-> "idle"]
    /\ task_call = [t \in Tasks |-> NoCall]
    /\ lock_writer = 0
    /\ lock_readers = {}
    /\ table_partial = FALSE
    /\ reg_log = <<>>
    /\ reg_returned = {}
    /\ task_floor = [t \in Tasks |-> 0]
    /\ task_got = [t \in Tasks |-> NotRead]

\* The observation before any request was handled.
NoRequestYet ==
    [request |-> [method |-> "echo", params |-> NoneValue, id |-> NoneValue],
     handler |-> None,
     returned |-> OkResponse(NoneValue, NoneError, NoneValue),
     called |-> FALSE]

\* Lines 75-80: ServerBuilder::new, with ServerCapabilities::default()
\* (lib.rs lines 78-87): no tool.
ServerBuilder_new ==
    /\ TasksInit
    /\ srv_phase = "builder"
    /\ srv_tools = <<>>
    /\ handlers = [m \in Methods |-> None]
    /\ srv_last = NoRequestYet

\* Lines 82-85: ServerBuilder::with_tool
with_tool(name) ==
    /\ srv_phase = "builder"
    /\ Len(srv_tools) < MaxTools
    /\ srv_tools' = Append(srv_tools, name)
    /\ UNCHANGED <<srv_phase, handlers, srv_last>>
    /\ UNCHANGED <<taskVars, notServer>>

\* Lines 92-94 and 18-23: ServerBuilder::build: Server::new(capabilities)
\* with a new, empty handlers map.
build ==
    /\ srv_phase = "builder"
    /\ srv_phase' = "server"
    /\ handlers' = [m \in Methods |-> None]
    /\ UNCHANGED <<srv_tools, srv_last>>
    /\ UNCHANGED <<taskVars, notServer>>

\* Lines 18-23: Server::new(ServerCapabilities::default())
ServerInit ==
    /\ TasksInit
    /\ srv_phase = "server"
    /\ srv_tools = <<>>
    /\ handlers = [m \in Methods |-> None]
    /\ srv_last = [request |-> [method |-> "echo", params |-> NoneValue,
                                id |-> NoneValue],
                   handler |-> None,
                   returned |-> OkResponse(NoneValue, NoneError, NoneValue),
                   called |-> FALSE]

\* Lines 25-28: register_tool: insert under tool.name, replacing an earlier one.
register_tool(name, handler) ==
    /\ srv_phase = "server"
    /\ handlers' = [handlers EXCEPT ![name] = handler]
    /\ UNCHANGED <<srv_phase, srv_tools, srv_last>>
    /\ UNCHANGED <<taskVars, notServer>>

\* What handle_request returns on the handlers map h.
Server_handle_request(h, req) ==
    IF h[req.method] # None
    THEN LET r == handle(h[req.method], req.params) IN
         IF r.ok
         THEN OkResponse(SomeValue(r.value), NoneError, req.id)
         ELSE OkResponse(NoneValue, SomeError(ERROR_INTERNAL, r.message), req.id)
    ELSE OkResponse(NoneValue, SomeError(ERROR_METHOD_NOT_FOUND, "Method not found"),
                    req.id)

\* handle_request reporting a missing handler as an internal error.
handle_request_InternalWhenMissing(req) ==
    /\ srv_last' = [request |-> req, handler |-> handlers[req.method],
                    returned |->
                        IF handlers[req.method] # None
                        THEN Server_handle_request(handlers, req)
                        ELSE OkResponse(NoneValue,
                                        SomeError(ERROR_INTERNAL, "Method not found"),
                                        req.id),
                    called |-> TRUE]
    /\ srv_phase = "server"
    /\ UNCHANGED <<srv_phase, srv_tools, handlers>>
    /\ UNCHANGED <<taskVars, notServer>>

\* Lines 30-64: Server::handle_request
handle_request(req) ==
    /\ srv_last' = [request |-> req, handler |-> handlers[req.method],
                    returned |-> Server_handle_request(handlers, req),
                    called |-> TRUE]
    /\ srv_phase = "server"
    /\ UNCHANGED <<srv_phase, srv_tools, handlers>>
    /\ UNCHANGED <<taskVars, notServer>>

\* ------------------------------------------------------------------------
\* ------------------------------------------------------------------------
\* Server shared by concurrent tasks (pmcp/src/server.rs lines 11-64)
\* ------------------------------------------------------------------------
\* The newest insert under `name` among the inserts `chosen` of the log, 0
\* when there is none.
NewestInsert(log, chosen, name) ==
    LET under == {i \in chosen : log[i].name = name}
    IN IF under = {} THEN 0 ELSE CHOOSE i \in under : \A j \in under : j <= i

\* Line 25: a task calls register_tool(tool, handler) and waits for the lock.
call_register_tool(t, name, handler) ==
    /\ srv_phase = "server"
    /\ task_pc[t] = "idle"
    /\ task_pc' = [task_pc EXCEPT ![t] = "write_wait"]
    /\ task_call' = [task_call EXCEPT ![t] =
                        [kind |-> "register_tool", name |-> name, handler |-> handler]]
    /\ UNCHANGED <<lock_writer, lock_readers, table_partial, reg_log, reg_returned,
                   task_floor, task_got>>
    /\ UNCHANGED <<srv_phase, srv_tools, handlers, srv_last>>
    /\ UNCHANGED notServer

\* Lines 26-27: self.handlers.write().await is granted when no guard is
\* held, and the insert begins.
write_lock ==
    \E t \in Tasks :
        /\ task_pc[t] = "write_wait"
        /\ lock_writer = 0 /\ lock_readers = {}
        /\ lock_writer' = t
        /\ table_partial' = TRUE
        /\ task_pc' = [task_pc EXCEPT ![t] = "inserting"]
        /\ UNCHANGED <<task_call, lock_readers, reg_log, reg_returned, task_floor,
                       task_got>>
        /\ UNCHANGED <<srv_phase, srv_tools, handlers, srv_last>>
        /\ UNCHANGED notServer

\* Lines 27-28: the insert ends and the write guard is dropped.
insert_and_unlock ==
    \E t \in Tasks :
        /\ task_pc[t] = "inserting"
        /\ handlers' = [handlers EXCEPT ![task_call[t].name] = task_call[t].handler]
        /\ table_partial' = FALSE
        /\ reg_log' = Append(reg_log, [name |-> task_call[t].name,
                                       handler |-> task_call[t].handler,
                                       task |-> t])
        /\ lock_writer' = 0
        /\ task_pc' = [task_pc EXCEPT ![t] = "unlocked"]
        /\ UNCHANGED <<task_call, lock_readers, reg_returned, task_floor, task_got>>
        /\ UNCHANGED <<srv_phase, srv_tools, srv_last>>
        /\ UNCHANGED notServer

\* Line 28: register_tool returns to the task.
register_tool_returns ==
    \E t \in Tasks :
        /\ task_pc[t] = "unlocked"
        /\ task_pc' = [task_pc EXCEPT ![t] = "done"]
        /\ reg_returned' = reg_returned \cup
                              {i \in DOMAIN reg_log : reg_log[i].task = t}
        /\ UNCHANGED <<task_call, lock_writer, lock_readers, table_partial, reg_log,
                       task_floor, task_got>>
        /\ UNCHANGED <<srv_phase, srv_tools, handlers, srv_last>>
        /\ UNCHANGED notServer

\* Line 30: a task calls handle_request(request) and waits for the lock.
call_handle_request(t, name) ==
    /\ srv_phase = "server"
    /\ task_pc[t] = "idle"
    /\ task_pc' = [task_pc EXCEPT ![t] = "read_wait"]
    /\ task_call' = [task_call EXCEPT ![t] =
                        [kind |-> "handle_request", name |-> name, handler |-> None]]
    /\ task_floor' = [task_floor EXCEPT ![t] = NewestInsert(reg_log, reg_returned, name)]
    /\ UNCHANGED <<lock_writer, lock_readers, table_partial, reg_log, reg_returned,
                   task_got>>
    /\ UNCHANGED <<srv_phase, srv_tools, handlers, srv_last>>
    /\ UNCHANGED notServer

\* What handlers.get(name) gives: the entry of the map, or anything when
\* the map is read in the middle of an insert.
Get(name) ==
    IF table_partial THEN TaskHandlers \cup {None} ELSE {handlers[name]}

\* read_lock granted whoever holds the lock.
read_lock_IgnoresWriter ==
    \E t \in Tasks :
        /\ task_pc[t] = "read_wait"
        /\ lock_readers' = lock_readers \cup {t}
        /\ \E h \in Get(task_call[t].name) :
              task_got' = [task_got EXCEPT ![t] =
                              [read |-> TRUE, handler |-> h, seen |-> Len(reg_log),
                               partial |-> table_partial]]
        /\ task_pc' = [task_pc EXCEPT ![t] = "handling"]
        /\ UNCHANGED <<task_call, lock_writer, table_partial, reg_log, reg_returned,
                       task_floor>>
        /\ UNCHANGED <<srv_phase, srv_tools, handlers, srv_last>>
        /\ UNCHANGED notServer

\* Lines 31-33: self.handlers.read().await is granted when no write guard is
\* held, and handlers.get(&request.method) is looked up.
read_lock ==
    \E t \in Tasks :
        /\ task_pc[t] = "read_wait"
        /\ lock_writer = 0
        /\ lock_readers' = lock_readers \cup {t}
        /\ \E h \in Get(task_call[t].name) :
              task_got' = [task_got EXCEPT ![t] =
                              [read |-> TRUE, handler |-> h, seen |-> Len(reg_log),
                               partial |-> table_partial]]
        /\ task_pc' = [task_pc EXCEPT ![t] = "handling"]
        /\ UNCHANGED <<task_call, lock_writer, table_partial, reg_log, reg_returned,
                       task_floor>>
        /\ UNCHANGED <<srv_phase, srv_tools, handlers, srv_last>>
        /\ UNCHANGED notServer

\* Lines 34-64: the handler runs under the read guard, the response is
\* built, the guard is dropped and handle_request returns.
handle_and_return ==
    \E t \in Tasks :
        /\ task_pc[t] = "handling"
        /\ lock_readers' = lock_readers \ {t}
        /\ task_pc' = [task_pc EXCEPT ![t] = "done"]
        /\ UNCHANGED <<task_call, lock_writer, table_partial, reg_log, reg_returned,
                       task_floor, task_got>>
        /\ UNCHANGED <<srv_phase, srv_tools, handlers, srv_last>>
        /\ UNCHANGED notServer

\* FsmInput and fsm_is_deterministic
\* (modules/05-testing/examples/16_property_tests.rs)
\* ------------------------------------------------------------------------
\* The % of i32: the remainder has the sign of the dividend (n > 0).
Rem(a, n) == LET m == a % n IN IF a >= 0 \/ m = 0 THEN m ELSE m - n

\* The i32 values drawn by i32::arbitrary.
RawI32 == -MaxRaw .. MaxRaw

PropInit ==
    /\ prop_pc = "idle"
    /\ prop_input = [state |-> 0, event |-> 0]
    /\ prop_result = 0

\* Lines 9-16: FsmInput::arbitrary from the two i32 values drawn
FsmInput_arbitrary(raw_state, raw_event) ==
    /\ prop_pc' = "generated"
    /\ prop_input' = [state |-> Rem(raw_state, 10), event |-> Rem(raw_event, 5)]
    /\ UNCHANGED prop_result
    /\ UNCHANGED notProp

\* Lines 18-20: fn fsm_is_deterministic
fsm_is_deterministic(input) == Rem(input.state + input.event, 10)

\* Lines 79-80: the property test calls fsm_is_deterministic on the input.
call_fsm_is_deterministic ==
    /\ prop_pc = "generated"
    /\ prop_pc' = "returned"
    /\ prop_result' = fsm_is_deterministic(prop_input)
    /\ UNCHANGED prop_input
    /\ UNCHANGED notProp

\* ------------------------------------------------------------------------
\* run_stdio_server (final_project/src/main.rs) over StdioTransport
\* (pmcp/src/transport.rs)
\* ------------------------------------------------------------------------
\* Line 69: StdioTransport::new(), and the loop about to receive.
StdioInit ==
    /\ io_pc = "receive"
    /\ io_request = [method |-> "echo", params |-> NoneValue, id |-> NoneValue]
    /\ io_response = [result |-> NoneValue, error |-> NoneError, id |-> NoneValue]
    /\ io_trace = <<>>
    /\ io_result = None

\* The ways receive() fails (transport.rs lines 56-65): read_line fails, or
\* from_str fails on the line read: on the empty line of the end of input
\* or on a line that is not a request.
ReceiveErrors == {"io_error", "end_of_input", "invalid_line"}

\* The ways send() fails (transport.rs lines 35-54): before anything is
\* written (to_string, or the first write_all), or after the response went
\* out (the newline or the flush).
SendErrors == {"nothing_written", "response_written"}

IoCall(op, ok, id, detail) == [op |-> op, ok |-> ok, id |-> id, detail |-> detail]

ReceivedOk == SelectSeq(io_trace, LAMBDA c : c.op = "receive" /\ c.ok)

\* Lines 74-75: transport.receive() returns Ok(request).
receive_Ok(req) ==
    /\ io_pc = "receive"
    /\ Len(ReceivedOk) < MaxStdioRequests
    /\ io_request' = req
    /\ io_trace' = Append(io_trace, IoCall("receive", TRUE, req.id, ""))
    /\ io_pc' = "handle"
    /\ UNCHANGED <<io_response, io_result>>
    /\ UNCHANGED notStdio

\* Lines 85-88 and 92: transport.receive() returns Err: the loop breaks and
\* run_stdio_server returns Ok(()).
receive_Err(e) ==
    /\ io_pc = "receive"
    /\ io_trace' = Append(io_trace, IoCall("receive", FALSE, NoneValue, e))
    /\ io_pc' = "returned"
    /\ io_result' = "Ok"
    /\ UNCHANGED <<io_request, io_response>>
    /\ UNCHANGED notStdio

\* Lines 76-79: server.handle_request(request).await, with `?` on its result.
stdio_handle_request ==
    /\ io_pc = "handle"
    /\ LET r == Server_handle_request(handlers, io_request) IN
       IF r.ok
       THEN /\ io_response' = r.response
            /\ io_pc' = "send"
            /\ UNCHANGED io_result
       ELSE /\ io_pc' = "returned"
            /\ io_result' = "Err"
            /\ UNCHANGED io_response
    /\ UNCHANGED <<io_request, io_trace>>
    /\ UNCHANGED notStdio

\* send_Err with the error dropped: the loop goes on to the next receive.
send_Err_Ignored(e) ==
    /\ io_pc = "send"
    /\ io_trace' = Append(io_trace, IoCall("send", FALSE, io_response.id, e))
    /\ io_pc' = "receive"
    /\ UNCHANGED <<io_request, io_response, io_result>>
    /\ UNCHANGED notStdio

\* Lines 80-83: transport.send(response) returns Ok(()): the loop goes on.
send_Ok ==
    /\ io_pc = "send"
    /\ io_trace' = Append(io_trace, IoCall("send", TRUE, io_response.id, ""))
    /\ io_pc' = "receive"
    /\ UNCHANGED <<io_request, io_response, io_result>>
    /\ UNCHANGED notStdio

\* Lines 80-83: transport.send(response) returns Err, and `?` returns it from
\* run_stdio_server.
send_Err(e) ==
    /\ io_pc = "send"
    /\ io_trace' = Append(io_trace, IoCall("send", FALSE, io_response.id, e))
    /\ io_pc' = "returned"
    /\ io_result' = "Err"
    /\ UNCHANGED <<io_request, io_response>>
    /\ UNCHANGED notStdio

\* ------------------------------------------------------------------------
\* RetryPolicy and CircuitBreaker
\* (modules/03-agents/examples/11_error_boundaries.rs)
\* ------------------------------------------------------------------------
\* u32 at U32Bits bits.
U32_MAX == 2 ^ U32Bits - 1
U32 == 0 .. U32_MAX

\* The base delays given to a RetryPolicy, in milliseconds.
BaseDelays == {1, 3}

\* Result<T, AgentError> of the operation and of execute; the error carries
\* the number of the invocation that made it.
RetryOk == [ok |-> TRUE, err |-> 0]
RetryErr(e) == [ok |-> FALSE, err |-> e]

RetryInit ==
    /\ retry_pc = "idle"
    /\ retry_policy = [max_attempts |-> 0, base_delay |-> 1]
    /\ attempt = 0
    /\ retry_calls = <<>>
    /\ retry_delays = <<>>
    /\ retry_result = RetryOk

\* Lines 25-29: execute is called on a RetryPolicy: attempt = 0.
RetryPolicy_execute(max_attempts, base_delay) ==
    /\ retry_pc = "idle"
    /\ retry_policy' = [max_attempts |-> max_attempts, base_delay |-> base_delay]
    /\ attempt' = 0
    /\ retry_pc' = "loop"
    /\ UNCHANGED <<retry_calls, retry_delays, retry_result>>
    /\ UNCHANGED notRetry

\* Line 38: 2u32.pow(n): the power when it fits u32; when it does not, a
\* build with overflow checks panics and a build without them wraps.
pow2(n) ==
    IF 2 ^ n <= U32_MAX
    THEN {[panic |-> FALSE, value |-> 2 ^ n]}
    ELSE {[panic |-> TRUE, value |-> 0],
          [panic |-> FALSE, value |-> (2 ^ n) % (2 ^ U32Bits)]}

\* Lines 31-42: one turn of the loop: attempt += 1, f() is invoked, and
\* execute returns or computes the delay and sleeps.
retry_turn(f_ok) ==
    /\ retry_pc = "loop"
    /\ LET a == attempt + 1
           r == IF f_ok THEN RetryOk ELSE RetryErr(a)
       IN
       /\ attempt' = a
       /\ retry_calls' = Append(retry_calls, r)
       /\ IF r.ok \/ a >= retry_policy.max_attempts
          THEN /\ retry_result' = r
               /\ retry_pc' = "returned"
               /\ UNCHANGED retry_delays
          ELSE \E p \in pow2(a - 1) :
                  IF p.panic
                  THEN /\ retry_pc' = "panicked"
                       /\ UNCHANGED <<retry_delays, retry_result>>
                  ELSE /\ retry_delays' =
                             Append(retry_delays, retry_policy.base_delay * p.value)
                       /\ retry_pc' = "sleep"
                       /\ UNCHANGED retry_result
    /\ UNCHANGED retry_policy
    /\ UNCHANGED notRetry

\* Line 40: sleep(delay).await ends and the loop takes its next turn.
retry_sleep_elapses ==
    /\ retry_pc = "sleep"
    /\ retry_pc' = "loop"
    /\ UNCHANGED <<retry_policy, attempt, retry_calls, retry_delays, retry_result>>
    /\ UNCHANGED notRetry

\* Lines 54-60: CircuitBreaker::new
CircuitBreaker_new(threshold) ==
    /\ failure_threshold = threshold
    /\ failures = 0
    /\ is_open = FALSE
    /\ breaker_calls = <<>>

BreakerCall(invoked, ok, err, open_after) ==
    [invoked |-> invoked, ok |-> ok, err |-> err,
     open_before |-> is_open, open_after |-> open_after]

\* call leaving the failure count as it is on a success.
CircuitBreaker_call_KeepsCount(f_ok) ==
    /\ Len(breaker_calls) < MaxBreakerCalls
    /\ IF is_open
       THEN /\ breaker_calls' =
                  Append(breaker_calls,
                         BreakerCall(FALSE, FALSE, "Circuit breaker open", is_open))
            /\ UNCHANGED <<failures, is_open>>
       ELSE IF f_ok
            THEN /\ breaker_calls' = Append(breaker_calls,
                                            BreakerCall(TRUE, TRUE, "", is_open))
                 /\ UNCHANGED <<failures, is_open>>
            ELSE LET n == failures + 1
                     opens == n >= failure_threshold
                 IN /\ failures' = n
                    /\ is_open' = (is_open \/ opens)
                    /\ breaker_calls' =
                          Append(breaker_calls,
                                 BreakerCall(TRUE, FALSE, "service unavailable", opens))
    /\ UNCHANGED failure_threshold
    /\ UNCHANGED notBreaker

\* Lines 62-84: CircuitBreaker::call on an operation that succeeds or fails.
CircuitBreaker_call(f_ok) ==
    /\ Len(breaker_calls) < MaxBreakerCalls
    /\ IF is_open
       THEN /\ breaker_calls' =
                  Append(breaker_calls,
                         BreakerCall(FALSE, FALSE, "Circuit breaker open", is_open))
            /\ UNCHANGED <<failures, is_open>>
       ELSE IF f_ok
            THEN /\ failures' = 0
                 /\ breaker_calls' = Append(breaker_calls,
                                            BreakerCall(TRUE, TRUE, "", is_open))
                 /\ UNCHANGED is_open
            ELSE LET n == failures + 1
                     opens == n >= failure_threshold
                 IN /\ failures' = n
                    /\ is_open' = (is_open \/ opens)
                    /\ breaker_calls' =
                          Append(breaker_calls,
                                 BreakerCall(TRUE, FALSE, "service unavailable", opens))
    /\ UNCHANGED failure_threshold
    /\ UNCHANGED notBreaker

\* ------------------------------------------------------------------------
\* CodeAnalysisFsm (modules/03-agents/examples/10_code_analysis_fsm.rs)
\* ------------------------------------------------------------------------
\* Lines 3-10: enum AnalysisState
AnalysisState == {"Init", "Parsing", "Analyzing", "Verifying", "Complete"}

\* Lines 17-21: CodeAnalysisFsm::new
AnalysisInit ==
    /\ analysis_state = "Init"
    /\ analysis_calls = <<>>

\* A method of the FSM that requires the state `required` and sets `next`.
AnalysisStep(op, required, next) ==
    /\ Len(analysis_calls) < MaxAnalysisCalls
    /\ LET ok == analysis_state = required IN
       /\ analysis_state' = IF ok THEN next ELSE analysis_state
       /\ analysis_calls' = Append(analysis_calls,
                                   [op |-> op, ok |-> ok, before |-> analysis_state])
    /\ UNCHANGED notAnalysis

\* Lines 23-29: parse
parse == AnalysisStep("parse", "Init", "Parsing")

\* analyze accepted in Init as well as in Parsing.
analyze_WithoutParse ==
    /\ Len(analysis_calls) < MaxAnalysisCalls
    /\ LET ok == analysis_state \in {"Init", "Parsing"} IN
       /\ analysis_state' = IF ok THEN "Analyzing" ELSE analysis_state
       /\ analysis_calls' = Append(analysis_calls,
                                   [op |-> "analyze", ok |-> ok,
                                    before |-> analysis_state])
    /\ UNCHANGED notAnalysis

\* Lines 31-37: analyze
analyze == AnalysisStep("analyze", "Parsing", "Analyzing")

\* Lines 39-45: verify
verify == AnalysisStep("verify", "Analyzing", "Verifying")

\* ------------------------------------------------------------------------
\* Specifications
\* ------------------------------------------------------------------------
\* Line 145: the breaker of demonstrate_circuit_breaker.
BreakerInit == CircuitBreaker_new(3)

\* Every machine as constructed.
Constructed ==
    /\ FsmInit /\ RefactorInit /\ bench_i = 0 /\ bench_extra = FALSE /\ AsyncInit
    /\ BasicInit /\ ArithInit /\ PropInit
    /\ StdioInit /\ RetryInit /\ AnalysisInit

Init == Constructed /\ recording = FALSE /\ Calculator_new /\ ServerInit /\ BreakerInit

\* The builder and the Fsm it produces.
Next ==
    \/ \E s \in InitialStateInputs : Builder_initial_state(s)
    \/ \E t \in TransitionInputs : Builder_transition(t)
    \/ \E n \in GuardNames, c \in GuardClosures : Builder_add_guard(n, c)
    \/ \E c \in InvariantClosures : Builder_add_invariant(c)
    \/ Builder_build
    \/ \E e \in EventInputs : Fsm_process_event(e)
Spec == Init /\ [][Next]_vars

\* The refactor workflow under any events, hooks and rollbacks.
NextRefactor ==
    \/ \E e \in RefactorEvents : RefactorFsm_process_event(e)
    \/ add_pre_hook
    \/ add_post_hook
    \/ rollback
    \/ rollback_loop
SpecRefactor == Init /\ [][NextRefactor]_vars

\* The same, with a rollback() that was called being run to its end: the
\* caller awaits it, and the runtime resumes it after each sleep.
SpecRefactorLive == SpecRefactor /\ WF_vars(rollback_loop)

\* The benchmark loop on a new RefactorFsm, with at most one further event.
\* A refactor workflow: progress events and rollbacks on a RefactorFsm
\* without hooks.
NextWorkflow ==
    \/ \E e \in WorkflowEvents : workflow_process_event(e)
    \/ rollback
    \/ rollback_loop

SpecWorkflow == Init /\ [][NextWorkflow]_vars

\* A rollback that was called runs to its end; nothing makes a caller submit
\* an event or call rollback().
SpecWorkflowLive == SpecWorkflow /\ WF_vars(rollback_loop)

\* The life of one workflow on a RefactorFsm without hooks: progress events
\* with pauses, cancellations and errors among them.
NextLifecycle == \E e \in RefactorEvents : lifecycle_process_event(e)

SpecLifecycle == Init /\ [][NextLifecycle]_vars

\* A RefactorFsm without hooks under accepted events of every kind and
\* rollback() calls.
NextCompletion ==
    \/ \E e \in RefactorEvents : completion_process_event(e)
    \/ rollback
    \/ rollback_loop

SpecCompletion == Init /\ [][NextCompletion]_vars

\* The builder with its calls recorded, and the Fsm it produces: the
\* transitions, guards and events of demonstrate_event_sourcing and
\* demonstrate_transition_guards.
InitBuilder == Constructed /\ recording = TRUE /\ Calculator_new /\ ServerInit /\ BreakerInit

RecordedTransitionInputs ==
    { Tr("Init", "Processing", Ev("Start", 0), None),
      Tr("Processing", "Complete", Ev("Finish", 0), None),
      Tr("Init", "Complete", Ev("Start", 0), "g1"),
      Tr("Init", "Error", Ev("Start", 0), "g2") }

RecordedGuardClosures == {"always_true", "always_false"}

RecordedInvariantClosures == {"not_error"}

RecordedEventInputs == {Ev("Start", 0), Ev("Finish", 0)}

NextBuilder ==
    \/ \E s \in InitialStateInputs : Builder_initial_state(s)
    \/ \E t \in RecordedTransitionInputs : Builder_transition(t)
    \/ \E n \in GuardNames, c \in RecordedGuardClosures : Builder_add_guard(n, c)
    \/ \E c \in RecordedInvariantClosures : Builder_add_invariant(c)
    \/ Builder_build
    \/ \E e \in RecordedEventInputs : Fsm_process_event(e)

SpecBuilder == InitBuilder /\ [][NextBuilder]_vars

\* Requests under one parent token.
NextAsync ==
    \/ \E id \in RequestIds : spawn_handle_request(id)
    \/ token_cancel
    \/ \E id \in RequestIds : sleep_elapses(id)
    \/ \E id \in RequestIds : poll_handle_request(id)

SpecAsync == Init /\ [][NextAsync]_vars

\* The FSM of create_basic_fsm under any events.
NextBasic == \E e \in BasicEventInputs : FSM_process_event(e)

SpecBasic == Init /\ [][NextBasic]_vars

\* A Calculator made by new() or by with_max_history(n), under any calls.
InitCalculator ==
    /\ Constructed /\ recording = FALSE /\ ServerInit /\ BreakerInit
    /\ \/ Calculator_new
       \/ \E n \in 0 .. MaxHistoryInput : Calculator_with_max_history(n)

NextCalculator ==
    \/ \E op \in CalcOperationInputs : execute_operation(op)
    \/ clear_history
    \/ reset

SpecCalculator == InitCalculator /\ [][NextCalculator]_vars

\* Operation::execute on every operation over the integers of IntWidth bits.
NextArith == \E op \in Operations : execute(op)

SpecArith == Init /\ [][NextArith]_vars

\* A Server under any registrations and requests.
NextServer ==
    \/ \E m \in Methods, h \in ToolHandlers : register_tool(m, h)
    \/ \E r \in Requests : handle_request(r)

SpecServer == Init /\ [][NextServer]_vars

\* A Server made by a ServerBuilder, then under any requests.
InitServerBuilder ==
    Constructed /\ recording = FALSE /\ Calculator_new /\ ServerBuilder_new /\ BreakerInit

NextServerBuilder ==
    \/ \E m \in Methods : with_tool(m)
    \/ build
    \/ \E r \in Requests : handle_request(r)

SpecServerBuilder == InitServerBuilder /\ [][NextServerBuilder]_vars

\* One Server shared by tasks that each make one call on it.
NextTasks ==
    \/ \E t \in Tasks, m \in TaskMethods, h \in TaskHandlers : call_register_tool(t, m, h)
    \/ \E t \in Tasks, m \in TaskMethods : call_handle_request(t, m)
    \/ write_lock
    \/ insert_and_unlock
    \/ register_tool_returns
    \/ read_lock
    \/ handle_and_return

SpecTasks == Init /\ [][NextTasks]_vars

\* run_stdio_server on the Server main() builds, on which no handler is
\* registered.
NextStdio ==
    \/ \E r \in Requests : receive_Ok(r)
    \/ \E e \in ReceiveErrors : receive_Err(e)
    \/ stdio_handle_request
    \/ send_Ok
    \/ \E e \in SendErrors : send_Err(e)

SpecStdio == Init /\ [][NextStdio]_vars

\* RetryPolicy::execute with any policy, on an operation that fails or
\* succeeds at each invocation.
NextRetry ==
    \/ \E n \in U32, d \in BaseDelays : RetryPolicy_execute(n, d)
    \/ \E f_ok \in BOOLEAN : retry_turn(f_ok)
    \/ retry_sleep_elapses

SpecRetry == Init /\ [][NextRetry]_vars

\* A CircuitBreaker made with any threshold, under any calls.
InitBreaker ==
    /\ Constructed /\ recording = FALSE /\ Calculator_new /\ ServerInit
    /\ \E threshold \in 0 .. MaxThreshold : CircuitBreaker_new(threshold)

NextBreaker == \E f_ok \in BOOLEAN : CircuitBreaker_call(f_ok)

SpecBreaker == InitBreaker /\ [][NextBreaker]_vars

\* A CodeAnalysisFsm under any calls.
NextAnalysis ==
    \/ parse
    \/ analyze
    \/ verify

SpecAnalysis == Init /\ [][NextAnalysis]_vars

\* The property test on every FsmInput the generator can produce.
NextProp ==
    \/ \E rs \in RawI32, re \in RawI32 : FsmInput_arbitrary(rs, re)
    \/ call_fsm_is_deterministic

SpecProp == Init /\ [][NextProp]_vars

NextBench ==
    \/ benchmark_step
    \/ \E e \in RefactorEvents : benchmark_extra_event(e)
SpecBench == Init /\ [][NextBench]_vars

\* ------------------------------------------------------------------------
\* Properties of the builder-produced Fsm (under Spec)
\* ------------------------------------------------------------------------
Called == fsm_last.called
Failed == fsm_last.result.kind \in {"NoValidTransition", "InvariantViolation"}

\* A transition is a candidate for event e in state s: same from-state, same tag.
IsCandidate(t, s, e) == t.from = s /\ t.event.tag = e.tag

\* The guard of t, if there is one to call, returns true on (s, e). A
\* guard name under which no closure is registered gives nothing to call.
GuardReturnsTrue(t, s, e) ==
    \/ t.guard_name = None
    \/ guards[t.guard_name] = None
    \/ guards[t.guard_name] = "always_true"
    \/ guards[t.guard_name] = "payload_positive" /\ e.payload > 0

\* The entries of the table accepted for e in s, and the first of them.
AcceptedEntries(s, e) ==
    {i \in 1..Len(transitions) :
        IsCandidate(transitions[i], s, e) /\ GuardReturnsTrue(transitions[i], s, e)}
FirstAccepted(s, e) ==
    CHOOSE i \in AcceptedEntries(s, e) : \A j \in AcceptedEntries(s, e) : i <= j

SatisfiesInvariants(s) ==
    /\ ("not_error" \in {invariants[k] : k \in 1..Len(invariants)} => s # "Error")
    /\ ("not_complete" \in {invariants[k] : k \in 1..Len(invariants)} => s # "Complete")

\* C1: a process_event call that returns an error (no matching transition,
\* every matching candidate's guard rejecting, or an invariant violation)
\* leaves current_state, event_history and transition_count as they were
\* before the call.
C1_ErrorLeavesFsmUnchanged ==
    (Called /\ Failed) =>
        /\ current_state = fsm_last.pre.current_state
        /\ event_history = fsm_last.pre.event_history
        /\ transition_count = fsm_last.pre.transition_count

\* C1 happens: after an accepted event, a call fails on an invariant.
C1_Witness ==
    /\ fsm_last.result.kind = "InvariantViolation"
    /\ transition_count >= 1

\* C2: process_event takes the first entry, in registration order, whose
\* from-state is current_state, whose event tag is the event's, and whose
\* guard (if there is one to call) returns true on (current_state, event):
\* entries whose guard returns false are skipped, a later entry can still
\* win, and no later entry is chosen over an earlier accepted one. The call
\* commits that entry's target (or fails on an invariant at that entry), and
\* it fails with no valid transition exactly when no entry is accepted.
C2_FirstAcceptedWins ==
    Called =>
        LET s == fsm_last.pre.current_state
            e == fsm_last.event
        IN IF AcceptedEntries(s, e) = {}
           THEN fsm_last.result.kind = "NoValidTransition"
           ELSE /\ fsm_last.result.kind \in {"Ok", "InvariantViolation"}
                /\ fsm_last.result.idx = FirstAccepted(s, e)
                /\ fsm_last.result.kind = "Ok" =>
                       current_state = transitions[FirstAccepted(s, e)].to

\* C2 happens: the first candidate's registered guard returned false and the
\* second entry won, to another target.
C2_Witness ==
    /\ fsm_last.result.kind = "Ok"
    /\ fsm_last.result.idx = 2
    /\ IsCandidate(transitions[1], fsm_last.pre.current_state, fsm_last.event)
    /\ ~GuardReturnsTrue(transitions[1], fsm_last.pre.current_state, fsm_last.event)
    /\ transitions[1].to # transitions[2].to

\* C3: a transition whose guard name was never registered with add_guard is
\* never committed by process_event.
C3_DanglingGuardIsInert ==
    fsm_last.result.kind = "Ok" =>
        LET t == transitions[fsm_last.result.idx] IN
        t.guard_name = None \/ guards[t.guard_name] # None

\* C4: once an event was accepted, current_state satisfies every registered
\* invariant, whatever the events submitted since.
C4_CommittedStateSatisfiesInvariants ==
    (phase = "fsm" /\ transition_count >= 1) => SatisfiesInvariants(current_state)

\* C4 happens: an event was accepted by an Fsm with an invariant, although
\* the table holds a candidate for that event whose target breaks it.
C4_Witness ==
    /\ fsm_last.result.kind = "Ok"
    /\ Len(invariants) >= 1
    /\ \E i \in 1..Len(transitions) :
          /\ IsCandidate(transitions[i], fsm_last.pre.current_state, fsm_last.event)
          /\ ~SatisfiesInvariants(transitions[i].to)

\* C5: when the target of the first accepted entry fails an invariant, the
\* call fails with an invariant violation naming that target (not with no
\* valid transition), stops at that entry, and leaves the Fsm as it was.
C5_InvariantViolationStopsTheScan ==
    Called =>
        LET s == fsm_last.pre.current_state
            e == fsm_last.event
        IN (/\ AcceptedEntries(s, e) # {}
            /\ ~SatisfiesInvariants(transitions[FirstAccepted(s, e)].to))
           => /\ fsm_last.result.kind = "InvariantViolation"
              /\ fsm_last.result.idx = FirstAccepted(s, e)
              /\ fsm_last.result.state = transitions[FirstAccepted(s, e)].to
              /\ current_state = s
              /\ event_history = fsm_last.pre.event_history
              /\ transition_count = fsm_last.pre.transition_count

\* C5 happens: the call failed on an invariant although a later accepted
\* entry had a target that satisfies the invariants.
C5_Witness ==
    /\ fsm_last.result.kind = "InvariantViolation"
    /\ \E j \in AcceptedEntries(fsm_last.pre.current_state, fsm_last.event) :
          /\ j > fsm_last.result.idx
          /\ SatisfiesInvariants(transitions[j].to)

\* ------------------------------------------------------------------------
\* Properties of the RefactorFsm (under SpecRefactor, SpecRefactorLive, SpecBench)
\* ------------------------------------------------------------------------
Rejected == rf_last.op = "process_event" /\ ~rf_last.ok
Accepted == rf_last.op = "process_event" /\ rf_last.ok

RECURSIVE Reverse(_)
Reverse(q) == IF q = <<>> THEN <<>> ELSE Append(Reverse(Tail(q)), Head(q))

\* C6: an event that process_event rejects is not appended to the event log.
C6_RejectedEventNotLogged ==
    Rejected => event_log = rf_last.pre_log

\* C7: a rejected event leaves the state, the history ledger and the
\* rollback stack unchanged, and no pre-hook or post-hook is called.
C7_RejectLeavesFsmUnchanged ==
    Rejected =>
        /\ state = rf_last.pre_state
        /\ history = rf_last.pre_history
        /\ rollback_stack = rf_last.pre_stack
        /\ rf_last.trace = <<>>

\* C7 happens: an event is rejected by an FSM with hooks of both kinds and
\* an earlier accepted transition.
C7_Witness ==
    /\ Rejected
    /\ rf_last.pre_hooks # <<>>
    /\ rf_last.post_hooks # <<>>
    /\ rf_last.pre_stack # <<>>

Min(a, b) == IF a < b THEN a ELSE b

\* C9: the history holds at most 100 entries, and it is the most recent (up
\* to 100) states left by accepted transitions, in the order they were left.
C9_HistoryIsLastHundred ==
    /\ Len(history) <= 100
    /\ history = SubSeq(left, Len(left) - Min(100, Len(left)) + 1, Len(left))

\* C9 happens: more than 100 transitions were accepted, one of them for an
\* event from outside the loop, so entries were evicted.
C9_Witness == Len(left) > 102 /\ Accepted /\ bench_extra

RollbackDone == rf_last.op = "rollback" /\ rf_pc = "idle"

\* C10: a rollback() that was called returns; when it has, the state is Init,
\* the rollback stack is empty, and the states it set on the way are the
\* stacked states, last pushed first.
C10_RollbackConverges ==
    /\ [](RollbackDone =>
            /\ state = "Init"
            /\ rollback_stack = <<>>
            /\ rf_last.visited = Reverse(rf_last.pre_stack))
    /\ (rf_pc = "rollback") ~> RollbackDone

\* C10 happens: a rollback called outside Init with two stacked states has returned.
C10_Witness ==
    /\ RollbackDone
    /\ Len(rf_last.pre_stack) >= 2
    /\ rf_last.pre_state # "Init"

\* A step of rollback(): the call entering its loop, a turn of the loop, or
\* the exit from it.
RollbackStep == rf_pc = "rollback" \/ rf_pc' = "rollback"

\* C11: rollback() calls no pre-hook or post-hook and leaves the history
\* ledger, the event log and the hook lists as they are: of the fields of the
\* FSM its steps change only the state and the rollback stack. (The
\* RefactorFsm has no invariants to evaluate.)
C11_RollbackFrame ==
    [][RollbackStep =>
          /\ history' = history
          /\ event_log' = event_log
          /\ pre_hooks' = pre_hooks
          /\ post_hooks' = post_hooks
          /\ rf_last'.trace = <<>>]_vars

\* C11 happens: a rollback over a non-empty stack has returned on an FSM with
\* hooks of both kinds, a ledger and a log.
C11_Witness ==
    /\ RollbackDone
    /\ rf_last.pre_stack # <<>>
    /\ pre_hooks # <<>>
    /\ post_hooks # <<>>
    /\ history # <<>>
    /\ event_log # <<>>
    /\ rollback_stack = <<>>

Terminal == {"Complete", "Error", "Cancelled"}

\* C13: a Cancel event submitted in a terminal state (Complete, Error or
\* Cancelled) changes neither the state nor the history nor the rollback
\* stack, and no hook is called.
C13_CancelInTerminalIsNoOp ==
    (/\ rf_last.op = "process_event"
     /\ rf_last.event.tag = "Cancel"
     /\ rf_last.pre_state \in Terminal)
    => /\ state = rf_last.pre_state
       /\ history = rf_last.pre_history
       /\ rollback_stack = rf_last.pre_stack
       /\ rf_last.trace = <<>>

\* C14: once the FSM is in Cancelled, no event moves it to another state.
C14_CancelledIsTerminal ==
    (rf_last.op = "process_event" /\ rf_last.pre_state = "Cancelled")
    => state = "Cancelled"

\* The last call was an accepted failed check: TestsRun with failed > 0 in
\* Testing, or ValidationComplete(false) in Validating.
FailedCheckAccepted ==
    /\ rf_last.op = "process_event"
    /\ rf_last.ok
    /\ \/ /\ rf_last.pre_state = "Testing"
          /\ rf_last.event.tag = "TestsRun"
          /\ rf_last.event.payload > 0
       \/ /\ rf_last.pre_state = "Validating"
          /\ rf_last.event.tag = "ValidationComplete"
          /\ rf_last.event.payload = 0

\* C12: after a failed check (failing tests, or a failed validation) the
\* workflow rolls back: the FSM eventually returns to Init.
C12_FailedCheckLeadsToInit == FailedCheckAccepted ~> (state = "Init")

\* C15 as stated: a request returns exactly one value, and what happened
\* first decides it: the cancelled error if the token was cancelled before
\* the work finished, the completion result if the work finished first.
C15_FirstToHappenDecides ==
    \A id \in RequestIds :
        request[id] = "done" =>
            /\ Len(results[id]) = 1
            /\ first_done[id] = "cancel" => results[id] = <<"Err">>
            /\ first_done[id] = "work" => results[id] = <<"Ok">>

\* C15, amended: a request returns at most one value, decided by what is the
\* case when the task is polled: the cancelled error only after a cancel, the
\* completion result only after the sleep; a request polled after the parent's
\* cancel has returned, with the cancelled error if its sleep had not elapsed;
\* a request polled after its sleep has returned, with the completion result
\* if no cancel had been fired.
C15_PollDecides ==
    \A id \in RequestIds :
        /\ Len(results[id]) <= 1
        /\ (request[id] = "done") = (Len(results[id]) = 1)
        /\ results[id] = <<"Err">> => last_poll[id].fired
        /\ results[id] = <<"Ok">> => last_poll[id].elapsed
        /\ last_poll[id].fired \/ last_poll[id].elapsed => request[id] = "done"
        /\ last_poll[id].fired /\ ~last_poll[id].elapsed => results[id] = <<"Err">>
        /\ last_poll[id].elapsed /\ ~last_poll[id].fired => results[id] = <<"Ok">>

\* C15 happens: the parent was cancelled with two children waiting; one was
\* polled before its sleep elapsed and returned the error, the other was
\* polled with both branches ready and returned the completion result.
C15_Witness ==
    /\ token_cancelled
    /\ \E a, b \in RequestIds :
        /\ a # b
        /\ first_done[a] = "cancel" /\ first_done[b] = "cancel"
        /\ results[a] = <<"Err">> /\ ~last_poll[a].elapsed
        /\ results[b] = <<"Ok">> /\ last_poll[b].fired

\* The arguments of the recorded calls of one builder method, in call order.
ArgsOf(op) ==
    LET calls == SelectSeq(builder_calls, LAMBDA c : c.op = op)
    IN [k \in 1..Len(calls) |-> calls[k].arg]

\* The state passed to the last initial_state call, None without one.
LastInitialState ==
    LET args == ArgsOf("initial_state")
    IN IF args = <<>> THEN None ELSE args[Len(args)]

\* Under each guard name, the closure of the last add_guard call with it.
LastGuards ==
    [n \in GuardNames |->
        LET closures == SelectSeq(ArgsOf("add_guard"), LAMBDA a : a[1] = n)
        IN IF closures = <<>> THEN None ELSE closures[Len(closures)][2]]

\* build() has returned and the Fsm has not been used yet.
JustBuilt == phase = "fsm" /\ ~fsm_last.called

\* C17: build() fails exactly when initial_state was never called; otherwise
\* the Fsm starts in the configured initial state with an empty history and a
\* counter of 0, and holds the transitions, guards and invariants as they
\* were registered.
C17_BuildResult ==
    /\ phase # "builder" =>
          ((phase = "build_err") <=> (ArgsOf("initial_state") = <<>>))
    /\ phase = "fsm" =>
          /\ transitions = ArgsOf("transition")
          /\ guards = LastGuards
          /\ invariants = ArgsOf("add_invariant")
    /\ JustBuilt =>
          /\ current_state = LastInitialState
          /\ event_history = <<>>
          /\ transition_count = 0

\* C17 happens: build() returned an Fsm from a builder that was given an
\* initial state, a transition, a guard and an invariant.
C17_Witness ==
    /\ JustBuilt
    /\ transitions # <<>>
    /\ invariants # <<>>
    /\ \E n \in GuardNames : guards[n] # None

\* C18: the builder holds, and the built Fsm starts in, the state passed to
\* the last initial_state call, however many calls came before it and
\* whatever was registered between them.
C18_LastInitialStateWins ==
    /\ phase = "builder" => initial_state = LastInitialState
    /\ JustBuilt => current_state = LastInitialState /\ initial_state = LastInitialState

\* C18 happens: an Fsm was built after two initial_state calls with different
\* states and a transition registered between them.
C18_Witness ==
    /\ JustBuilt
    /\ \E i, j, k \in 1..Len(builder_calls) :
        /\ i < j /\ j < k
        /\ builder_calls[i].op = "initial_state"
        /\ builder_calls[j].op = "transition"
        /\ builder_calls[k].op = "initial_state"
        /\ builder_calls[i].arg # builder_calls[k].arg
        /\ current_state = builder_calls[k].arg

\* The recorded add_guard calls with one name.
GuardCalls(n) == SelectSeq(ArgsOf("add_guard"), LAMBDA a : a[1] = n)

\* No guard name was registered twice.
EachGuardOnce == \A n \in GuardNames : Len(GuardCalls(n)) <= 1

\* The guard maps that the recorded add_guard calls give when they are made
\* in some order: under each name, one of the closures registered with it.
GuardMapsInSomeOrder ==
    {g \in [GuardNames -> GuardClosures \cup {None}] :
        \A n \in GuardNames :
            IF GuardCalls(n) = <<>> THEN g[n] = None
            ELSE \E k \in 1..Len(GuardCalls(n)) : g[n] = GuardCalls(n)[k][2]}

\* Whether the k-th registered transition is taken for an event in state s,
\* under a guard map.
Taken(table, k, gmap, s, event) ==
    /\ table[k].from = s
    /\ table[k].event.tag = event.tag
    /\ IF table[k].guard_name = None THEN TRUE
       ELSE IF gmap[table[k].guard_name] = None THEN TRUE
       ELSE CallGuard(gmap[table[k].guard_name], s, event)

\* The outcome of an event in state s as the registered transitions (in
\* their order), a guard map and the registered invariants give it.
OutcomeByRegistration(gmap, s, event) ==
    LET table == ArgsOf("transition")
        invs == ArgsOf("add_invariant")
        taken == {k \in 1..Len(table) : Taken(table, k, gmap, s, event)}
    IN IF taken = {} THEN [kind |-> "NoValidTransition", state |-> None]
       ELSE LET first == CHOOSE k \in taken : \A m \in taken : k <= m
                to == table[first].to
            IN IF \A m \in 1..Len(invs) : CallInvariant(invs[m], to)
               THEN [kind |-> "Ok", state |-> to]
               ELSE [kind |-> "InvariantViolation", state |-> None]

\* The last process_event call came out as the registered transitions, in
\* their order, give it under every order of the add_guard calls.
SameInEveryGuardOrder ==
    \A gmap \in GuardMapsInSomeOrder :
        LET expected == OutcomeByRegistration(gmap, fsm_last.pre.current_state,
                                              fsm_last.event)
        IN /\ fsm_last.result.kind = expected.kind
           /\ expected.kind = "Ok" => current_state = expected.state
           /\ expected.kind # "Ok" => current_state = fsm_last.pre.current_state

\* C19 as stated: the outcome of process_event is given by the transitions
\* in registration order, whatever the order of the add_guard calls among
\* themselves and among the transitions.
C19_GuardOrderIsIrrelevant == Called => SameInEveryGuardOrder

\* C19, amended: the same with each guard name registered at most once.
C19_GuardOrderIsIrrelevantOnce == (Called /\ EachGuardOnce) => SameInEveryGuardOrder

\* C19 happens: an event was refused by a guard registered after the
\* transition that names it, with another guard registered before that one.
C19_Witness ==
    /\ Called
    /\ EachGuardOnce
    /\ fsm_last.result.kind = "NoValidTransition"
    /\ \E i, j, k \in 1..Len(builder_calls) :
        /\ i < j /\ j < k
        /\ builder_calls[i].op = "transition"
        /\ builder_calls[j].op = "add_guard"
        /\ builder_calls[k].op = "add_guard"
        /\ builder_calls[i].arg.guard_name = builder_calls[k].arg[1]
        /\ builder_calls[j].arg[1] # builder_calls[k].arg[1]
        /\ builder_calls[i].arg.from = fsm_last.pre.current_state
        /\ builder_calls[i].arg.event.tag = fsm_last.event.tag

\* The Fsm of demonstrate_event_sourcing: initial state Init, Init --Start-->
\* Processing, Processing --Finish--> Complete, no invariant.
ScenarioFsm ==
    /\ phase = "fsm"
    /\ initial_state = "Init"
    /\ transitions = << Tr("Init", "Processing", Ev("Start", 0), None),
                        Tr("Processing", "Complete", Ev("Finish", 0), None) >>
    /\ invariants = <<>>

\* The entries of the Fsm's history by name.
HistoryNames == [k \in 1..Len(event_history) |-> event_history[k].tag]

\* Finish fed to the scenario Fsm before anything was accepted: a
\* no-valid-transition error, the state still Init, the counter still 0.
FinishFromInit ==
    (Called /\ fsm_last.pre.transition_count = 0 /\ fsm_last.event.tag = "Finish")
    => /\ fsm_last.result.kind = "NoValidTransition"
       /\ current_state = "Init"
       /\ transition_count = 0

\* Finish fed to the scenario Fsm right after Start.
StartThenFinish ==
    /\ Called
    /\ fsm_last.pre.event_history = <<Ev("Start", 0)>>
    /\ fsm_last.event.tag = "Finish"

OkCalls == SelectSeq(fsm_calls, LAMBDA c : c.ok)

\* The events of the calls made on the foundations FSM.
CallEvents == [k \in 1..Len(fsm_calls) |-> fsm_calls[k].event]

\* C24: on the FSM of create_basic_fsm, transition_count is the number of
\* process_event calls that returned Ok; a call that returned Err left the
\* state and the count as they were; Start, Pause, Resume, Finish ends in
\* Complete with a count of 4.
C24_CountIsOkCalls ==
    /\ fsm_transition_count = Len(OkCalls)
    /\ fsm_calls # <<>> =>
          LET c == fsm_calls[Len(fsm_calls)]
          IN ~c.ok => /\ fsm_current_state = c.state_before
                      /\ fsm_transition_count = c.count_before
    /\ CallEvents = <<Ev("Start", 0), Ev("Pause", 0), Ev("Resume", 0), Ev("Finish", 0)>>
          => fsm_current_state = "Complete" /\ fsm_transition_count = 4

\* C24 happens: after accepted calls, Pause was refused in a state other
\* than Running.
C24_Witness ==
    /\ Len(fsm_calls) >= 3
    /\ fsm_transition_count >= 2
    /\ ~fsm_calls[Len(fsm_calls)].ok
    /\ fsm_calls[Len(fsm_calls)].event.tag = "Pause"

\* The first entry of create_basic_fsm from state s for an event tag, 0
\* without one.
FirstByTag(s, tag) ==
    LET hits == {i \in 1..Len(create_basic_fsm) :
                    create_basic_fsm[i].from = s /\ create_basic_fsm[i].event.tag = tag}
    IN IF hits = {} THEN 0 ELSE CHOOSE i \in hits : \A j \in hits : i <= j

\* In the foundations FSM the entry found for an event is the first one
\* from the state with the event's tag, whatever the payload.
FoundationsMatchByTag ==
    \A s \in BasicState, e \in BasicEventInputs :
        FSM_find(create_basic_fsm, 1, s, e) = FirstByTag(s, e.tag)

\* The builder Fsm refuses an event exactly when no entry from the current
\* state with the event's tag has its guard pass.
BuilderMatchByTag ==
    \A e \in EventInputs :
        (Scan(1, e).kind = "NoValidTransition") <=> (AcceptedEntries(current_state, e) = {})

\* C21 as stated: two events with the same tag select the same transition
\* from the same state, whatever their payloads, in the foundations FSM and
\* in the builder Fsm.
C21_SameTagSameTransition ==
    /\ FoundationsMatchByTag
    /\ phase = "fsm" =>
          /\ BuilderMatchByTag
          /\ \A e1, e2 \in EventInputs :
                e1.tag = e2.tag => Scan(1, e1) = Scan(1, e2)

\* The guards of the entries from the current state that carry e1's tag give
\* the same answer on e1 and e2.
GuardsAgree(e1, e2) ==
    \A i \in 1..Len(transitions) :
        IsCandidate(transitions[i], current_state, e1) =>
            (GuardReturnsTrue(transitions[i], current_state, e1)
                <=> GuardReturnsTrue(transitions[i], current_state, e2))

\* C21, amended: the same, for the builder Fsm, of two events that no guard
\* of a candidate tells apart.
C21_SameTagSameTransitionUnlessGuarded ==
    /\ FoundationsMatchByTag
    /\ phase = "fsm" =>
          /\ BuilderMatchByTag
          /\ \A e1, e2 \in EventInputs :
                (e1.tag = e2.tag /\ GuardsAgree(e1, e2)) => Scan(1, e1) = Scan(1, e2)

\* C21 happens: the builder Fsm accepted an event through an entry registered
\* with another payload of the same tag.
C21_Witness ==
    /\ Called
    /\ fsm_last.result.kind = "Ok"
    /\ transitions[fsm_last.result.idx].event.tag = fsm_last.event.tag
    /\ transitions[fsm_last.result.idx].event.payload # fsm_last.event.payload

\* A step of a process_event call, accepted or rejected.
AcceptedStep == event_log' # event_log /\ left' # left
RejectedStep == event_log' # event_log /\ left' = left

\* C22: the rollback stack is never longer than the number of accepted
\* transitions; an accepted event pushes the state being left, a rejected
\* one leaves the stack alone, and only rollback() shortens it.
C22_StackBoundedByAccepted ==
    [][/\ Len(rollback_stack') <= Len(left')
       /\ AcceptedStep => rollback_stack' = Append(rollback_stack, state)
       /\ RejectedStep => rollback_stack' = rollback_stack
       /\ Len(rollback_stack') < Len(rollback_stack) => RollbackStep]_vars

\* C22 happens: after a rollback and a further accepted event, an event was
\* rejected over a stack shorter than the number of accepted transitions.
C22_Witness ==
    /\ Rejected
    /\ rollback_stack # <<>>
    /\ Len(rollback_stack) < Len(left)

ResumeCall == rf_last.op = "process_event" /\ rf_last.event.tag = "Resume"

\* C23: Resume is accepted exactly in Paused and moves the FSM to the state
\* at the back of the history (Init if the history is empty), which is the
\* state that the event that entered Paused left; Pause is accepted and
\* enters Paused.
C23_ResumeReturnsToBackOfHistory ==
    /\ ResumeCall => (rf_last.ok <=> rf_last.pre_state = "Paused")
    /\ (ResumeCall /\ ~rf_last.ok) => state = rf_last.pre_state
    /\ (ResumeCall /\ rf_last.ok) =>
          /\ state = IF rf_last.pre_history = <<>> THEN "Init"
                     ELSE rf_last.pre_history[Len(rf_last.pre_history)]
          /\ Len(left) >= 2 => state = left[Len(left) - 1]
    /\ (rf_last.op = "process_event" /\ rf_last.event.tag = "Pause") =>
          /\ rf_last.ok
          /\ state = "Paused"
          /\ history # <<>> /\ history[Len(history)] = rf_last.pre_state

\* C23 happens: Pause in Testing, then Resume, and the FSM is in Testing.
C23_Witness ==
    /\ ResumeCall
    /\ rf_last.ok
    /\ state = "Testing"
    /\ Len(event_log) >= 2
    /\ event_log[Len(event_log) - 1].tag = "Pause"

\* C25: ErrorOccurred is accepted in every state and ends in Error, with the
\* state being left pushed on the history and on the rollback stack.
C25_ErrorOccurredAlwaysAccepted ==
    (rf_last.op = "process_event" /\ rf_last.event.tag = "ErrorOccurred") =>
        /\ rf_last.ok
        /\ state = "Error"
        /\ history = LET pushed == Append(rf_last.pre_history, rf_last.pre_state)
                     IN IF Len(pushed) > 100 THEN Tail(pushed) ELSE pushed
        /\ rollback_stack = Append(rf_last.pre_stack, rf_last.pre_state)

\* C25 happens: ErrorOccurred was submitted in Complete.
C25_Witness ==
    /\ rf_last.op = "process_event"
    /\ rf_last.event.tag = "ErrorOccurred"
    /\ rf_last.pre_state = "Complete"
    /\ state = "Error"

\* The last k entries of a sequence.
Suffix(seq, k) == SubSeq(seq, Len(seq) - k + 1, Len(seq))

\* C26: the history of a Calculator made with with_max_history(n) is never
\* longer than n, for every n >= 0, and holds the most recent successful
\* operations in order.
C26_HistoryWithinMax ==
    /\ Len(calc_history) <= max_history
    /\ calc_history = Suffix(calc_ok_ops, Min(max_history, Len(calc_ok_ops)))

ExecuteCall == calc_last.call = "execute_operation"

\* C27: a failed operation leaves the state Error(message) and the history
\* as it was; a successful one appends itself to the history and leaves the
\* state Ready; the state is never Computing between calls; reset() leaves
\* Ready and an empty history.
C27_ErrorStateAndRecovery ==
    /\ calc_state.tag # "Computing"
    /\ (ExecuteCall /\ ~calc_last.result.ok) =>
          /\ calc_state.tag = "Error"
          /\ calc_state.msg = IF calc_last.op.b = 0 THEN "Division by zero"
                              ELSE "Overflow occurred"
          /\ calc_history = calc_last.pre_history
    /\ (ExecuteCall /\ calc_last.result.ok) =>
          /\ calc_state.tag = "Ready"
          /\ calc_history # <<>>
          /\ calc_history[Len(calc_history)] = calc_last.op
          /\ Len(calc_last.pre_history) < max_history =>
                calc_history = Append(calc_last.pre_history, calc_last.op)
    /\ calc_last.call = "reset" =>
          /\ calc_state.tag = "Ready"
          /\ calc_history = <<>>

\* C27 happens: an operation succeeded on a calculator that was in Error and
\* whose history held an earlier operation.
C27_Witness ==
    /\ ExecuteCall
    /\ calc_last.result.ok
    /\ calc_last.pre_state.tag = "Error"
    /\ calc_last.pre_history # <<>>

Fits(x) == I64_MIN <= x /\ x <= I64_MAX

\* The result of the operation in the integers.
Exact(op) ==
    CASE op.tag = "Add" -> op.a + op.b
      [] op.tag = "Subtract" -> op.a - op.b
      [] op.tag = "Multiply" -> op.a * op.b
      [] OTHER -> 0

\* C28: add, subtract and multiply return the exact result when it fits the
\* width and Overflow exactly when it does not; divide returns
\* DivisionByZero exactly when the divisor is 0 and Overflow for MIN / -1;
\* add and multiply return the same for (a, b) and (b, a).
C28_CheckedArithmetic ==
    ex_pc = "returned" =>
        /\ ex_op.tag \in {"Add", "Subtract", "Multiply"} =>
              /\ ex_result.ok <=> Fits(Exact(ex_op))
              /\ ex_result.ok => ex_result.value = Exact(ex_op)
              /\ ~ex_result.ok => ex_result.err = "Overflow"
        /\ ex_op.tag = "Divide" =>
              /\ (~ex_result.ok /\ ex_result.err = "DivisionByZero") <=> ex_op.b = 0
              /\ (ex_op.a = I64_MIN /\ ex_op.b = -1) =>
                    (~ex_result.ok /\ ex_result.err = "Overflow")
        /\ ex_op.tag \in {"Add", "Multiply"} =>
              ex_result = Operation_execute(Op(ex_op.tag, ex_op.b, ex_op.a))

\* C28 happens: execute returned Overflow for an addition of two different
\* operands.
C28_Witness ==
    /\ ex_pc = "returned"
    /\ ex_op.tag = "Add"
    /\ ex_op.a # ex_op.b
    /\ ~ex_result.ok

Returned == srv_last.returned.response

\* C29: handle_request returns Ok with the request's id and exactly one of
\* result and error: the handler's value when the handler registered under
\* the method succeeds, code -32603 when it fails, code -32601 when no
\* handler is registered under the method.
C29_ResponseShape ==
    srv_last.called =>
        /\ srv_last.returned.ok
        /\ Returned.id = srv_last.request.id
        /\ Returned.result.some # Returned.error.some
        /\ srv_last.handler \in {"echo_params", "fixed_value"} =>
              /\ Returned.result.some
              /\ Returned.result.value =
                    IF srv_last.handler = "fixed_value" THEN "2"
                    ELSE IF srv_last.request.params.some
                         THEN srv_last.request.params.value ELSE "null"
        /\ srv_last.handler = "failing" =>
              (Returned.error.some /\ Returned.error.code = -32603)
        /\ srv_last.handler = None =>
              /\ Returned.error.some
              /\ Returned.error.code = -32601
              /\ Returned.error.message = "Method not found"

\* C29 happens: a request with an id to a method nobody registered, on a
\* server that has a handler under another method.
C29_Witness ==
    /\ srv_last.called
    /\ srv_last.handler = None
    /\ srv_last.request.id.some
    /\ \E m \in Methods : handlers[m] # None

\* C30: fsm_is_deterministic returns 0 <= r < 10 on every generated
\* FsmInput (state in -9..9, event in -4..4).
C30_ResultWithinBounds ==
    prop_pc = "returned" =>
        /\ prop_input.state \in -9 .. 9
        /\ prop_input.event \in -4 .. 4
        /\ 0 <= prop_result /\ prop_result < 10

\* C31: the FSM never advances past a failed check: TestsRun with failed > 0
\* accepted in Testing leads to Rollback, never to Validating, and
\* ValidationComplete(false) accepted in Validating leads to Rollback, never
\* to Complete.
C31_FailedCheckLeadsToRollback ==
    FailedCheckAccepted =>
        /\ state = "Rollback"
        /\ history # <<>> /\ history[Len(history)] = rf_last.pre_state

\* C31 happens: tests passed, and then the validation failed in Validating.
C31_Witness ==
    /\ FailedCheckAccepted
    /\ rf_last.pre_state = "Validating"
    /\ state = "Rollback"

ProgressTags ==
    {"Start", "ParseComplete", "AnalysisComplete", "PlanGenerated",
     "RefactorApplied", "TestsRun", "ValidationComplete"}

DeclaredPairs == {define_transitions[i] : i \in DOMAIN define_transitions}

\* C32: every state change process_event makes in response to a
\* workflow-progress event is a (from, to) pair of define_transitions().
C32_ProgressFollowsDeclaredTable ==
    (/\ rf_last.op = "process_event"
     /\ rf_last.ok
     /\ rf_last.event.tag \in ProgressTags)
    => <<rf_last.pre_state, state>> \in DeclaredPairs

\* A ValidationComplete(true) was accepted in Validating, after a TestsRun
\* with failed == 0 accepted in Testing.
ValidatedAfterPassingTests ==
    \E i \in DOMAIN accepted :
        /\ accepted[i].from = "Validating"
        /\ accepted[i].event = Ev("ValidationComplete", 1)
        /\ \E j \in 1 .. i - 1 :
              /\ accepted[j].from = "Testing"
              /\ accepted[j].event = Ev("TestsRun", 0)

\* C33: under any process_event and rollback() calls the FSM is in Complete
\* only if a ValidationComplete(true) was accepted in Validating after a
\* TestsRun with failed == 0 accepted in Testing.
C33_CompleteOnlyAfterValidation == state = "Complete" => ValidatedAfterPassingTests

\* C33 happens: the FSM is in Complete again without a new validation, put
\* back there by a rollback() after the workflow had completed and was
\* cancelled.
C33_Witness ==
    /\ state = "Complete"
    /\ rf_last.op = "rollback"
    /\ \E i \in DOMAIN accepted : accepted[i].event.tag = "Cancel"

\* C34: every tool in capabilities().tools is dispatchable: a request whose
\* method is the name of a tool given to with_tool is routed to a handler
\* and is not answered with the Method-not-found error.
C34_AdvertisedToolsAreDispatchable ==
    (/\ srv_last.called
     /\ \E i \in DOMAIN srv_tools : srv_tools[i] = srv_last.request.method)
    => /\ srv_last.handler # None
       /\ ~(srv_last.returned.response.error.some
            /\ srv_last.returned.response.error.code = -32601)

\* The inserts a request had before it when it read the map.
SeenBy(t) == 1 .. task_got[t].seen

\* C35: a request dispatches to the handler of the newest insert under its
\* method made before it read the map, which is never older than an insert
\* whose register_tool had returned when the request started; and it never
\* reads the map in the middle of an insert.
C35_RequestsSeeCompletedRegistrations ==
    \A t \in Tasks :
        task_got[t].read =>
            LET newest == NewestInsert(reg_log, SeenBy(t), task_call[t].name) IN
            /\ ~task_got[t].partial
            /\ newest >= task_floor[t]
            /\ task_got[t].handler =
                  IF newest = 0 THEN None ELSE reg_log[newest].handler

\* C35 happens: a request that started after one register_tool under its
\* method had returned was dispatched to the handler of a later insert under
\* that method.
C35_Witness ==
    \E t \in Tasks :
        /\ task_got[t].read
        /\ task_floor[t] > 0
        /\ NewestInsert(reg_log, SeenBy(t), task_call[t].name) > task_floor[t]
        /\ task_got[t].handler # reg_log[task_floor[t]].handler

IsReceiveOk(c) == c.op = "receive" /\ c.ok
IsReceiveErr(c) == c.op = "receive" /\ ~c.ok
IsSend(c) == c.op = "send"
LastIo == io_trace[Len(io_trace)]

\* Every response follows the receive of the request whose id it carries.
SendsAnswerReceives ==
    \A i \in DOMAIN io_trace :
        IsSend(io_trace[i]) =>
            /\ i > 1
            /\ IsReceiveOk(io_trace[i - 1])
            /\ io_trace[i].id = io_trace[i - 1].id

\* A receive error is the last thing the loop does, and it returns Ok.
ReceiveErrorEndsLoop ==
    \A i \in DOMAIN io_trace :
        IsReceiveErr(io_trace[i]) =>
            (i = Len(io_trace) /\ io_pc = "returned" /\ io_result = "Ok")

\* C36 as stated: each request received is answered by exactly one response
\* with its id before the next receive, and the loop stops only at the first
\* receive error, returning Ok and sending nothing for it.
C36_AlternatesAndReturnsOk ==
    /\ \A i \in DOMAIN io_trace :
          IsReceiveOk(io_trace[i]) =>
              IF i < Len(io_trace)
              THEN IsSend(io_trace[i + 1]) /\ io_trace[i + 1].ok
              ELSE io_pc \in {"handle", "send"}
    /\ SendsAnswerReceives
    /\ ReceiveErrorEndsLoop
    /\ io_pc = "returned" => (io_result = "Ok" /\ IsReceiveErr(LastIo))

\* C36: each request received is answered by one response with its id
\* before the next receive, unless the send fails: then the loop stops
\* there and run_stdio_server returns Err. It stops and returns Ok at the
\* first receive error, sending nothing for it.
C36_AlternatesUnlessSendFails ==
    /\ \A i \in DOMAIN io_trace :
          IsReceiveOk(io_trace[i]) =>
              IF i < Len(io_trace)
              THEN /\ IsSend(io_trace[i + 1])
                   /\ \/ io_trace[i + 1].ok
                      \/ (i + 1 = Len(io_trace) /\ io_pc = "returned"
                          /\ io_result = "Err")
              ELSE io_pc \in {"handle", "send"}
    /\ SendsAnswerReceives
    /\ ReceiveErrorEndsLoop
    /\ io_pc = "returned" =>
          \/ (io_result = "Ok" /\ IsReceiveErr(LastIo))
          \/ (io_result = "Err" /\ IsSend(LastIo) /\ ~LastIo.ok)

\* C36 happens: two requests with different ids were each answered, then the
\* input ended and the loop returned Ok.
C36_Witness ==
    /\ io_pc = "returned"
    /\ io_result = "Ok"
    /\ Len(io_trace) = 5
    /\ io_trace[2].ok /\ io_trace[4].ok
    /\ io_trace[2].id # io_trace[4].id
    /\ LastIo.detail = "end_of_input"

\* The invocations execute may make: max_attempts, and one when that is 0.
AttemptLimit ==
    IF retry_policy.max_attempts = 0 THEN 1 ELSE retry_policy.max_attempts

\* C37: execute invokes the operation at most max_attempts times (once when
\* max_attempts is 0 or 1) and does not fail on its own, stops at the first
\* Ok and returns it, returns the error of the last attempt when all failed,
\* and waits base_delay * 2^(k-1) after the k-th failed attempt.
C37_RetryBoundedWithBackoff ==
    /\ retry_pc # "panicked"
    /\ Len(retry_calls) <= AttemptLimit
    /\ \A i \in 1 .. Len(retry_calls) - 1 : ~retry_calls[i].ok
    /\ retry_pc = "returned" =>
          /\ retry_result = retry_calls[Len(retry_calls)]
          /\ ~retry_result.ok =>
                (Len(retry_calls) = AttemptLimit /\ retry_result.err = AttemptLimit)
    /\ \A k \in DOMAIN retry_delays :
          retry_delays[k] = retry_policy.base_delay * 2 ^ (k - 1)

\* Trailing(i): the failed calls in a row that end with call i.
Trailing(i) ==
    LET oks == {j \in 1 .. i : breaker_calls[j].ok}
    IN IF oks = {} THEN i ELSE i - (CHOOSE j \in oks : \A k \in oks : k <= j)

AnalysisOrder == <<"Init", "Parsing", "Analyzing", "Verifying">>
Required(op) ==
    CASE op = "parse" -> "Init" [] op = "analyze" -> "Parsing" [] op = "verify" -> "Analyzing"
Produced(op) ==
    CASE op = "parse" -> "Parsing" [] op = "analyze" -> "Analyzing" [] op = "verify" -> "Verifying"

\* The state after the first i calls.
AnalysisStateAfter(i) ==
    IF i = Len(analysis_calls) THEN analysis_state ELSE analysis_calls[i + 1].before

\* C39: parse, analyze and verify each succeed only in their predecessor
\* state (Init, Parsing, Analyzing); a failing call leaves the state as it
\* was; the state only advances along Init, Parsing, Analyzing, Verifying;
\* and each operation succeeds at most once.
C39_PipelineOrder ==
    /\ \A i \in DOMAIN analysis_calls :
          LET c == analysis_calls[i] IN
          /\ c.ok <=> c.before = Required(c.op)
          /\ AnalysisStateAfter(i) = IF c.ok THEN Produced(c.op) ELSE c.before
          /\ \E k \in DOMAIN AnalysisOrder :
                /\ AnalysisOrder[k] = c.before
                /\ AnalysisStateAfter(i) \in
                      {AnalysisOrder[j] : j \in {k, k + 1} \cap DOMAIN AnalysisOrder}
    /\ \A i, j \in DOMAIN analysis_calls :
          (analysis_calls[i].ok /\ analysis_calls[j].ok
           /\ analysis_calls[i].op = analysis_calls[j].op) => i = j
    /\ analysis_calls = <<>> => analysis_state = "Init"

\* C39 happens: the pipeline ran to Verifying with a call out of order
\* refused on the way, and a second parse refused at the end.
C39_Witness ==
    /\ analysis_state = "Verifying"
    /\ Len(analysis_calls) = 5
    /\ analysis_calls[1].op = "verify" /\ ~analysis_calls[1].ok
    /\ analysis_calls[5].op = "parse" /\ ~analysis_calls[5].ok
====
